---- MODULE Spec2Model ----
(***************************************************************************)
(* hayanix: the Sigma rule engine (internal/rules/engine.go), the log      *)
(* processing loop around it (internal/engine/engine.go), the three log    *)
(* parsers (internal/parser), the collection analyzer                      *)
(* (internal/collection/analyzer.go), the rule sources (RuleManager and    *)
(* the rules commands of internal/cli/args.go), the analyze command with   *)
(* the saved configuration (internal/config), the log type detection of    *)
(* the collector (internal/collection/collector.go) and the setup wizard   *)
(* (internal/wizard).                                                      *)
(*                                                                         *)
(* Go strings that the code inspects character by character (field        *)
(* values, match criteria, field names, condition expressions) are         *)
(* sequences of one-character strings.  Go strings that the code only      *)
(* compares for equality or emptiness (rule identifiers, titles, the       *)
(* log-source triple, detection keys, path components) are TLA+ strings.   *)
(***************************************************************************)
EXTENDS Naturals, Sequences, FiniteSets, TLC

VARIABLES
    fs,            \* the rules directory tree on disk: [dirs, files]; sources.yml in SpecSources
    pc,            \* position of the program: start, loading, failed, ready, evaluating, done; call in SpecMatch
    engine,        \* what NewEngine returned: [nonNil, err]
    rules,         \* Engine.rules
    dirIdx,        \* loadRules: index of the directory the loop is at
    warned,        \* the log.Printf warnings, in order: [kind, at]
    contributed,   \* per searched directory, the number of rules its walk appended
    entries,       \* the parsed log entries handed to the processing loop
    entryIdx,      \* processLogs: index of the entry the loop is at
    ruleIdx,       \* Evaluate: index of the rule the loop is at
    matchedRules,  \* Evaluate: the local matchedRules slice
    results,       \* processLogs: the result slice
    call           \* one call (matchString, evaluateField, Parse, AnalyzeCollection, a rules command): arguments, progress and return

vars == <<fs, pc, engine, rules, dirIdx, warned, contributed, entries, entryIdx,
          ruleIdx, matchedRules, results, call>>

(***************************************************************************)
(* Bounds of the model.                                                    *)
(***************************************************************************)
MaxValueLen == 2     \* longest enumerated field value
MaxPatternLen == 2   \* longest enumerated criterion body (after the modifier prefix)
MaxFiles == 2        \* most files present under the rules directory
MaxEntries == 2      \* most log entries handed to the processing loop

(***************************************************************************)
(* Strings.                                                                *)
(***************************************************************************)
UpperCase == <<"A","B","C","D","E","F","G","H","I","J","K","L","M",
               "N","O","P","Q","R","S","T","U","V","W","X","Y","Z">>
LowerCase == <<"a","b","c","d","e","f","g","h","i","j","k","l","m",
               "n","o","p","q","r","s","t","u","v","w","x","y","z">>

ToLowerChar(c) ==
    IF \E i \in 1..Len(UpperCase) : UpperCase[i] = c
    THEN LowerCase[CHOOSE i \in 1..Len(UpperCase) : UpperCase[i] = c]
    ELSE c

\* strings.ToLower
ToLower(s) == [i \in 1..Len(s) |-> ToLowerChar(s[i])]

\* strings.HasPrefix
HasPrefix(s, prefix) ==
    /\ Len(prefix) <= Len(s)
    /\ SubSeq(s, 1, Len(prefix)) = prefix

\* strings.HasSuffix
HasSuffix(s, suffix) ==
    /\ Len(suffix) <= Len(s)
    /\ SubSeq(s, Len(s) - Len(suffix) + 1, Len(s)) = suffix

\* strings.TrimPrefix
TrimPrefix(s, prefix) ==
    IF HasPrefix(s, prefix) THEN SubSeq(s, Len(prefix) + 1, Len(s)) ELSE s

\* strings.Index: the first offset (1-based) at which substr occurs in s, 0 if none
Index(s, substr) ==
    LET at == {i \in 1..(Len(s) + 1) :
                  /\ i + Len(substr) - 1 <= Len(s)
                  /\ SubSeq(s, i, i + Len(substr) - 1) = substr}
    IN IF at = {} THEN 0 ELSE CHOOSE i \in at : \A j \in at : i <= j

\* strings.Contains
Contains(s, substr) == Index(s, substr) # 0

WhiteSpace == {" ", "\t", "\n", "\r"}

RECURSIVE TrimSpace(_)
\* strings.TrimSpace
TrimSpace(s) ==
    IF s = <<>> THEN s
    ELSE IF s[1] \in WhiteSpace THEN TrimSpace(Tail(s))
    ELSE IF s[Len(s)] \in WhiteSpace THEN TrimSpace(SubSeq(s, 1, Len(s) - 1))
    ELSE s

RECURSIVE Split(_, _)
\* strings.Split with a non-empty separator: the pieces between the
\* non-overlapping occurrences of sep, scanned left to right
Split(s, sep) ==
    LET i == Index(s, sep)
    IN IF i = 0 THEN <<s>>
       ELSE <<SubSeq(s, 1, i - 1)>> \o Split(SubSeq(s, i + Len(sep), Len(s)), sep)

(***************************************************************************)
(* regexp.MatchString on the pattern subset the model enumerates: literal  *)
(* characters, the assertions ^ and $, the wildcard ".", and the group and *)
(* class openers "(" and "[", which no enumerated pattern closes, so that  *)
(* a pattern containing one does not compile.                              *)
(***************************************************************************)
RegexpCompiles(re) == \A i \in 1..Len(re) : re[i] \notin {"(", "["}

RECURSIVE RegexpMatchHere(_, _, _, _)
\* does re[i..] match v starting at offset j (partial match: v may continue)
RegexpMatchHere(re, i, v, j) ==
    IF i > Len(re) THEN TRUE
    ELSE IF re[i] = "^" THEN j = 1 /\ RegexpMatchHere(re, i + 1, v, j)
    ELSE IF re[i] = "$" THEN j = Len(v) + 1 /\ RegexpMatchHere(re, i + 1, v, j)
    ELSE IF re[i] = "." THEN j <= Len(v) /\ v[j] # "\n" /\ RegexpMatchHere(re, i + 1, v, j + 1)
    ELSE j <= Len(v) /\ v[j] = re[i] /\ RegexpMatchHere(re, i + 1, v, j + 1)

\* regexp.MatchString(pattern, s): [matched, err]
RegexpMatchString(re, v) ==
    IF ~RegexpCompiles(re) THEN [matched |-> FALSE, err |-> TRUE]
    ELSE [matched |-> \E j \in 1..(Len(v) + 1) : RegexpMatchHere(re, 1, v, j),
          err |-> FALSE]

(***************************************************************************)
(* The String Matcher: Engine.matchString.                                 *)
(***************************************************************************)
PrefixRe == <<"|","r","e","|">>
PrefixContains == <<"|","c","o","n","t","a","i","n","s","|">>
PrefixStartswith == <<"|","s","t","a","r","t","s","w","i","t","h","|">>
PrefixEndswith == <<"|","e","n","d","s","w","i","t","h","|">>

\* a plausible slip: the comparison forgets to lower-case the field value
MatchString_CaseSensitive(value, pattern) ==
    IF HasPrefix(pattern, PrefixRe)
    THEN RegexpMatchString(TrimPrefix(pattern, PrefixRe), value).matched
    ELSE IF HasPrefix(pattern, PrefixContains)
    THEN Contains(value, ToLower(TrimPrefix(pattern, PrefixContains)))
    ELSE IF HasPrefix(pattern, PrefixStartswith)
    THEN HasPrefix(value, ToLower(TrimPrefix(pattern, PrefixStartswith)))
    ELSE IF HasPrefix(pattern, PrefixEndswith)
    THEN HasSuffix(value, ToLower(TrimPrefix(pattern, PrefixEndswith)))
    ELSE Contains(value, ToLower(pattern))

\* a plausible slip: the regular expression is matched like the other
\* modifiers, against the lower-cased value
MatchString_RegexLowered(value, pattern) ==
    IF HasPrefix(pattern, PrefixRe)
    THEN RegexpMatchString(TrimPrefix(pattern, PrefixRe), ToLower(value)).matched
    ELSE IF HasPrefix(pattern, PrefixContains)
    THEN Contains(ToLower(value), ToLower(TrimPrefix(pattern, PrefixContains)))
    ELSE IF HasPrefix(pattern, PrefixStartswith)
    THEN HasPrefix(ToLower(value), ToLower(TrimPrefix(pattern, PrefixStartswith)))
    ELSE IF HasPrefix(pattern, PrefixEndswith)
    THEN HasSuffix(ToLower(value), ToLower(TrimPrefix(pattern, PrefixEndswith)))
    ELSE Contains(ToLower(value), ToLower(pattern))

MatchString(value, pattern) ==
    IF HasPrefix(pattern, PrefixRe)
    THEN \* matched, _ := regexp.MatchString(regex, value): the error is dropped
         RegexpMatchString(TrimPrefix(pattern, PrefixRe), value).matched
    ELSE IF HasPrefix(pattern, PrefixContains)
    THEN Contains(ToLower(value), ToLower(TrimPrefix(pattern, PrefixContains)))
    ELSE IF HasPrefix(pattern, PrefixStartswith)
    THEN HasPrefix(ToLower(value), ToLower(TrimPrefix(pattern, PrefixStartswith)))
    ELSE IF HasPrefix(pattern, PrefixEndswith)
    THEN HasSuffix(ToLower(value), ToLower(TrimPrefix(pattern, PrefixEndswith)))
    ELSE \* default: case-insensitive contains
         Contains(ToLower(value), ToLower(pattern))

(***************************************************************************)
(* Go values of type interface{} as the YAML decoder leaves them in a      *)
(* rule's detection body.                                                  *)
(***************************************************************************)
StringV(s) == [k |-> "string", s |-> s]               \* string
IntV(n) == [k |-> "int", n |-> n]                     \* int
ListV(items) == [k |-> "list", items |-> items]       \* []interface{}
MapV(m) == [k |-> "map", m |-> m]                     \* map[string]interface{}
NilV == [k |-> "nil"]                                 \* nil
OtherV(text) == [k |-> "other", text |-> text]        \* any other dynamic type; text is its %v form

\* matches[part] on a Go map[string]bool: the zero value false for a missing key
Lookup(matches, key) == key \in DOMAIN matches /\ matches[key]

Digits == <<"0","1","2","3","4","5","6","7","8","9">>

RECURSIVE Itoa(_)
\* fmt.Sprintf("%d", n) for n >= 0
Itoa(n) == IF n < 10 THEN <<Digits[n + 1]>> ELSE Itoa(n \div 10) \o <<Digits[(n % 10) + 1]>>

(***************************************************************************)
(* The Field Resolver: Engine.getFieldValue.                               *)
(***************************************************************************)
FieldMessage == <<"m","e","s","s","a","g","e">>
FieldHostname == <<"h","o","s","t","n","a","m","e">>
FieldProgram == <<"p","r","o","g","r","a","m">>
FieldPid == <<"p","i","d">>
FieldTimestamp == <<"t","i","m","e","s","t","a","m","p">>

GetFieldValue_FieldsFirst(entry, field) ==
    IF field \in DOMAIN entry.Fields THEN entry.Fields[field]
    ELSE IF field = FieldMessage THEN entry.Message
    ELSE IF field = FieldHostname THEN entry.Hostname
    ELSE IF field = FieldProgram THEN entry.Program
    ELSE IF field = FieldPid THEN entry.PID
    ELSE IF field = FieldTimestamp THEN entry.Timestamp
    ELSE <<>>

GetFieldValue(entry, field) ==
    IF field = FieldMessage THEN entry.Message
    ELSE IF field = FieldHostname THEN entry.Hostname
    ELSE IF field = FieldProgram THEN entry.Program
    ELSE IF field = FieldPid THEN entry.PID
    ELSE IF field = FieldTimestamp THEN entry.Timestamp
    ELSE IF field \in DOMAIN entry.Fields THEN entry.Fields[field]
    ELSE <<>>

(***************************************************************************)
(* Engine.evaluateFieldModifiers.  The Go loop ranges over a map, whose    *)
(* iteration order is unspecified, and returns at the first key that is a  *)
(* known modifier carrying a string: the operator yields the set of        *)
(* results some iteration order produces.                                  *)
(***************************************************************************)
ModifierNames == {"contains", "startswith", "endswith", "re"}

\* a plausible slip: every modifier is evaluated as a substring test
ModifierResult_AlwaysContains(modifier, value, criteriaStr) ==
    Contains(ToLower(value), ToLower(criteriaStr))

ModifierResult(modifier, value, criteriaStr) ==
    CASE modifier = "contains" -> Contains(ToLower(value), ToLower(criteriaStr))
      [] modifier = "startswith" -> HasPrefix(ToLower(value), ToLower(criteriaStr))
      [] modifier = "endswith" -> HasSuffix(ToLower(value), ToLower(criteriaStr))
      [] modifier = "re" -> RegexpMatchString(criteriaStr, value).matched

EvaluateFieldModifiers(value, modifiers) ==
    LET returning == {m \in DOMAIN modifiers :
                         m \in ModifierNames /\ modifiers[m].k = "string"}
    IN IF returning = {} THEN {FALSE}
       ELSE {ModifierResult(m, value, modifiers[m].s) : m \in returning}

(***************************************************************************)
(* Engine.evaluateField: the set of results the call can return (a single  *)
(* one unless the criteria are a nested mapping with several modifiers).   *)
(***************************************************************************)
\* the string a list item is matched as
ItemStr(item) ==
    CASE item.k = "string" -> item.s
      [] item.k = "int" -> Itoa(item.n)
      [] item.k = "nil" -> <<"<","n","i","l",">">>
      [] OTHER -> item.text

EvaluateField_AllAlternatives(entry, field, criteria) ==
    LET fieldValue == GetFieldValue(entry, field)
    IN CASE criteria.k = "string" -> {MatchString(fieldValue, criteria.s)}
         [] criteria.k = "list" ->
               {\A i \in 1..Len(criteria.items) :
                    MatchString(fieldValue, ItemStr(criteria.items[i]))}
         [] criteria.k = "map" -> EvaluateFieldModifiers(fieldValue, criteria.m)
         [] OTHER -> {FALSE}

EvaluateField(entry, field, criteria) ==
    LET fieldValue == GetFieldValue(entry, field)
    IN CASE criteria.k = "string" -> {MatchString(fieldValue, criteria.s)}
         [] criteria.k = "list" ->
               {\E i \in 1..Len(criteria.items) :
                    MatchString(fieldValue, ItemStr(criteria.items[i]))}
         [] criteria.k = "map" -> EvaluateFieldModifiers(fieldValue, criteria.m)
         [] OTHER -> {FALSE}

(***************************************************************************)
(* The Condition Evaluator: Engine.evaluateCondition.                      *)
(***************************************************************************)
SepAnd == <<" ","a","n","d"," ">>
SepOr == <<" ","o","r"," ">>
StrSelection == <<"s","e","l","e","c","t","i","o","n">>

\* a plausible slip: the " or " substring is looked for before " and "
EvaluateCondition_OrFirst(matches, condition) ==
    LET c == ToLower(IF condition = <<>> THEN StrSelection ELSE condition)
    IN IF c = StrSelection
       THEN /\ \A f \in DOMAIN matches : matches[f]
            /\ Cardinality(DOMAIN matches) > 0
       ELSE IF Contains(c, SepOr)
       THEN LET parts == Split(c, SepOr)
            IN \E i \in 1..Len(parts) : Lookup(matches, TrimSpace(parts[i]))
       ELSE IF Contains(c, SepAnd)
       THEN LET parts == Split(c, SepAnd)
            IN \A i \in 1..Len(parts) : Lookup(matches, TrimSpace(parts[i]))
       ELSE Lookup(matches, c)

EvaluateCondition(matches, condition) ==
    LET c == ToLower(IF condition = <<>> THEN StrSelection ELSE condition)
    IN IF c = StrSelection
       THEN \* all selection criteria must match
            /\ \A f \in DOMAIN matches : matches[f]
            /\ Cardinality(DOMAIN matches) > 0
       ELSE IF Contains(c, SepAnd)
       THEN LET parts == Split(c, SepAnd)
            IN \A i \in 1..Len(parts) : Lookup(matches, TrimSpace(parts[i]))
       ELSE IF Contains(c, SepOr)
       THEN LET parts == Split(c, SepOr)
            IN \E i \in 1..Len(parts) : Lookup(matches, TrimSpace(parts[i]))
       ELSE \* single field condition
            Lookup(matches, c)

(***************************************************************************)
(* Engine.evaluateDetection: the set of results the call can return.       *)
(* detection is the Go map[string]interface{} as a function from its keys. *)
(***************************************************************************)
EvaluateDetection(entry, detection) ==
    IF ~("selection" \in DOMAIN detection /\ detection["selection"].k = "map")
    THEN {FALSE}     \* selection, ok := detection["selection"].(map[string]interface{})
    ELSE IF ~("condition" \in DOMAIN detection /\ detection["condition"].k = "string")
    THEN {FALSE}     \* condition, ok := detection["condition"].(string)
    ELSE LET selection == detection["selection"].m
             possible == {m \in [DOMAIN selection -> BOOLEAN] :
                             \A f \in DOMAIN selection :
                                 m[f] \in EvaluateField(entry, f, selection[f])}
         IN {EvaluateCondition(m, detection["condition"].s) : m \in possible}

(***************************************************************************)
(* Engine.matchesLogSource and Engine.matchesRule.                         *)
(***************************************************************************)
\* a plausible slip: the service attribute of the filter is not compared
MatchesLogSource_NoService(entry, logSource) ==
    /\ ~(logSource.Category # "" /\ logSource.Category # entry.Category)
    /\ ~(logSource.Product # "" /\ logSource.Product # entry.Product)

MatchesLogSource(entry, logSource) ==
    IF logSource.Category # "" /\ logSource.Category # entry.Category THEN FALSE
    ELSE IF logSource.Product # "" /\ logSource.Product # entry.Product THEN FALSE
    ELSE IF logSource.Service # "" /\ logSource.Service # entry.Service THEN FALSE
    ELSE TRUE

\* a plausible slip: the log-source filter is not consulted
MatchesRule_NoLogSource(entry, rule) == EvaluateDetection(entry, rule.Detection.m)

\* the set of results the call can return
MatchesRule(entry, rule) ==
    IF ~MatchesLogSource(entry, rule.Logsource) THEN {FALSE}
    ELSE EvaluateDetection(entry, rule.Detection.m)

(***************************************************************************)
(* The Rule Loader.  A file on disk is modelled by what reading and        *)
(* decoding it yields: a read error, a YAML error, or a Rule value (a      *)
(* missing key leaves the zero value: "" for id and title, nil for the     *)
(* detection map).                                                         *)
(***************************************************************************)
Unreadable == [kind |-> "unreadable"]       \* ioutil.ReadFile fails
BadYaml == [kind |-> "badyaml"]             \* yaml.Unmarshal fails
RuleFile(rule) == [kind |-> "rule", rule |-> rule]

NoLogSource == [Category |-> "", Product |-> "", Service |-> ""]

\* the directories loadRules searches, relative to rulesDir, in its order
SearchDirs == <<
    <<>>,
    <<"linux">>,
    <<"linux", "syslog">>,
    <<"linux", "journald">>,
    <<"linux", "auditd">>,
    <<"external">>,
    <<"external", "chopchopgo">>,
    <<"external", "sigmahq">>,
    <<"external", "custom">> >>

\* the file paths the model places files at, relative to rulesDir, in the
\* lexical order filepath.Walk visits them
WalkOrder == <<
    <<"a.yml">>,
    <<"external", "custom", "c.yml">>,
    <<"linux", "syslog", "s.yml">>,
    <<"notes.txt">>,
    <<"z.yaml">> >>

Paths == {WalkOrder[i] : i \in 1..Len(WalkOrder)}

\* is path inside the tree rooted at dir
IsUnder(path, dir) == Len(dir) < Len(path) /\ SubSeq(path, 1, Len(dir)) = dir

\* strings.HasSuffix(path, ".yml") || strings.HasSuffix(path, ".yaml")
HasRuleSuffix(path) == path[Len(path)] \in {"a.yml", "c.yml", "s.yml", "z.yaml"}

\* Engine.loadRule: [rule, err]
LoadRule(content) ==
    IF content.kind = "unreadable" THEN [rule |-> NilV, err |-> "read"]
    ELSE IF content.kind = "badyaml" THEN [rule |-> NilV, err |-> "parse"]
    ELSE IF content.rule.ID = "" THEN [rule |-> content.rule, err |-> "id"]
    ELSE IF content.rule.Title = "" THEN [rule |-> content.rule, err |-> "title"]
    ELSE IF content.rule.Detection.k = "nil" THEN [rule |-> content.rule, err |-> "detection"]
    ELSE [rule |-> content.rule, err |-> "nil"]

\* a plausible slip: the structural check accepts a detection body without a condition
ValidateRule_NoConditionCheck(rule) ==
    IF rule.Detection.k = "nil" THEN "detection section is nil"
    ELSE LET d == rule.Detection.m
         IN IF "selection" \in DOMAIN d /\ d["selection"].k = "nil"
            THEN "selection section is nil"
            ELSE IF "selection" \notin DOMAIN d
            THEN "detection section missing 'selection'"
            ELSE "nil"

\* Engine.validateRule: the error, "nil" for none.  The Go loop ranges over the
\* detection map in an unspecified order; which of two nil sections is
\* reported first varies, whether an error is returned does not.
ValidateRule(rule) ==
    IF rule.Detection.k = "nil" THEN "detection section is nil"
    ELSE LET d == rule.Detection.m
         IN IF "selection" \in DOMAIN d /\ d["selection"].k = "nil"
            THEN "selection section is nil"
            ELSE IF "condition" \in DOMAIN d /\ d["condition"].k = "nil"
            THEN "condition section is nil"
            ELSE IF "selection" \notin DOMAIN d
            THEN "detection section missing 'selection'"
            ELSE IF "condition" \notin DOMAIN d
            THEN "detection section missing 'condition'"
            ELSE "nil"

\* a plausible slip: the walk callback returns the load error, which ends the walk
WalkFn_Abort(acc, path, disk) ==
    IF acc.err THEN acc
    ELSE IF ~HasRuleSuffix(path) THEN acc
    ELSE LET loaded == LoadRule(disk.files[path])
         IN IF loaded.err # "nil"
            THEN [acc EXCEPT !.err = TRUE]
            ELSE IF ValidateRule(loaded.rule) # "nil"
            THEN [acc EXCEPT !.err = TRUE]
            ELSE [acc EXCEPT !.rules = Append(@, loaded.rule)]

\* the callback loadRulesFromDir hands to filepath.Walk, for one file of the
\* walk; acc is [rules, warned, err]: the rules appended, the warnings
\* logged, and whether the walk has ended with an error
WalkFn(acc, path, disk) ==
    IF acc.err THEN acc
    ELSE IF ~HasRuleSuffix(path) THEN acc
    ELSE LET loaded == LoadRule(disk.files[path])
         IN IF loaded.err # "nil"
            THEN [acc EXCEPT !.warned = Append(@, [kind |-> "load", at |-> path])]
            ELSE IF ValidateRule(loaded.rule) # "nil"
            THEN [acc EXCEPT !.warned = Append(@, [kind |-> "validation", at |-> path])]
            ELSE [acc EXCEPT !.rules = Append(@, loaded.rule)]

RECURSIVE WalkFrom(_, _, _, _)
\* filepath.Walk over the files under dir, from position i of the walk order
WalkFrom(acc, i, dir, disk) ==
    IF i > Len(WalkOrder) THEN acc
    ELSE IF WalkOrder[i] \in DOMAIN disk.files /\ IsUnder(WalkOrder[i], dir)
    THEN WalkFrom(WalkFn(acc, WalkOrder[i], disk), i + 1, dir, disk)
    ELSE WalkFrom(acc, i + 1, dir, disk)

\* Engine.loadRulesFromDir: [rules, warned, err].  Walk reports a root it
\* cannot lstat to the callback, which returns that error.
LoadRulesFromDir(dir, disk) ==
    IF dir \notin disk.dirs
    THEN [rules |-> <<>>, warned |-> <<>>, err |-> TRUE]
    ELSE WalkFrom([rules |-> <<>>, warned |-> <<>>, err |-> FALSE], 1, dir, disk)

\* a plausible slip: loadRules returns the first directory error
LoadRulesIter_Propagate(st, dir, disk) ==
    LET walk == LoadRulesFromDir(dir, disk)
    IN [rules |-> st.rules \o walk.rules,
        warned |-> st.warned \o walk.warned,
        contributed |-> Append(st.contributed, Len(walk.rules)),
        err |-> walk.err]

\* one iteration of the loop of Engine.loadRules; st is [rules, warned,
\* contributed, err], err being the error loadRules is about to return
LoadRulesIter(st, dir, disk) ==
    LET walk == LoadRulesFromDir(dir, disk)
    IN [rules |-> st.rules \o walk.rules,
        warned |-> st.warned \o walk.warned
                     \o (IF walk.err THEN <<[kind |-> "dir", at |-> dir]>> ELSE <<>>),
        contributed |-> Append(st.contributed, Len(walk.rules)),
        err |-> FALSE]

(***************************************************************************)
(* The program: NewEngine, then the processing loop over the log entries.  *)
(***************************************************************************)
NotReturned == [returned |-> FALSE, nonNil |-> FALSE, err |-> FALSE]
NoCall == [fn |-> "none"]

\* NewEngine up to its call of loadRules: engine := &Engine{rules: make([]Rule, 0)}
NewEngine ==
    /\ pc = "start"
    /\ rules' = <<>>
    /\ dirIdx' = 1
    /\ pc' = "loading"
    /\ UNCHANGED <<fs, engine, warned, contributed, entries, entryIdx, ruleIdx,
                   matchedRules, results, call>>

\* one iteration of loadRules' loop over the directories; an error of
\* loadRules makes NewEngine return (nil, err)
LoadRulesStep ==
    /\ pc = "loading"
    /\ dirIdx <= Len(SearchDirs)
    /\ LET st == LoadRulesIter([rules |-> rules, warned |-> warned,
                                contributed |-> contributed, err |-> FALSE],
                               SearchDirs[dirIdx], fs)
       IN /\ rules' = st.rules
          /\ warned' = st.warned
          /\ contributed' = st.contributed
          /\ IF st.err
             THEN /\ pc' = "failed"
                  /\ engine' = [returned |-> TRUE, nonNil |-> FALSE, err |-> TRUE]
                  /\ dirIdx' = dirIdx
             ELSE /\ pc' = pc
                  /\ engine' = engine
                  /\ dirIdx' = dirIdx + 1
    /\ UNCHANGED <<fs, entries, entryIdx, ruleIdx, matchedRules, results, call>>

\* loadRules returns nil and NewEngine returns (engine, nil)
NewEngineReturn ==
    /\ pc = "loading"
    /\ dirIdx > Len(SearchDirs)
    /\ engine' = [returned |-> TRUE, nonNil |-> TRUE, err |-> FALSE]
    /\ pc' = "ready"
    /\ UNCHANGED <<fs, rules, dirIdx, warned, contributed, entries, entryIdx,
                   ruleIdx, matchedRules, results, call>>

\* processLogs: the loop takes the next entry and calls Evaluate on it
EvaluateCall ==
    /\ pc = "ready"
    /\ entryIdx <= Len(entries)
    /\ ruleIdx' = 1
    /\ matchedRules' = <<>>
    /\ pc' = "evaluating"
    /\ UNCHANGED <<fs, engine, rules, dirIdx, warned, contributed, entries,
                   entryIdx, results, call>>

\* Evaluate: one iteration of the loop over e.rules
EvaluateStep ==
    /\ pc = "evaluating"
    /\ ruleIdx <= Len(rules)
    /\ \E matched \in MatchesRule(entries[entryIdx], rules[ruleIdx]) :
           matchedRules' = IF matched THEN Append(matchedRules, rules[ruleIdx].ID)
                           ELSE matchedRules
    /\ ruleIdx' = ruleIdx + 1
    /\ UNCHANGED <<fs, pc, engine, rules, dirIdx, warned, contributed, entries,
                   entryIdx, results, call>>

\* a plausible slip: the entry is kept whether or not a rule matched
EvaluateReturn_KeepAll ==
    /\ pc = "evaluating"
    /\ ruleIdx > Len(rules)
    /\ results' = Append(results, [entries[entryIdx] EXCEPT !.MatchedRules = matchedRules])
    /\ entryIdx' = entryIdx + 1
    /\ pc' = "ready"
    /\ UNCHANGED <<fs, engine, rules, dirIdx, warned, contributed, entries,
                   ruleIdx, matchedRules, call>>

EvaluateReturn_AssignInPlace ==
    /\ pc = "evaluating"
    /\ ruleIdx > Len(rules)
    /\ entries' = [entries EXCEPT ![entryIdx].MatchedRules = matchedRules]
    /\ results' = IF Len(matchedRules) > 0
                  THEN Append(results,
                              [entries[entryIdx] EXCEPT !.MatchedRules = matchedRules])
                  ELSE results
    /\ entryIdx' = entryIdx + 1
    /\ pc' = "ready"
    /\ UNCHANGED <<fs, engine, rules, dirIdx, warned, contributed,
                   ruleIdx, matchedRules, call>>

\* Evaluate returns matchedRules; processLogs keeps the entry if the list
\* is not empty, with the list assigned to its copy of the entry
EvaluateReturn ==
    /\ pc = "evaluating"
    /\ ruleIdx > Len(rules)
    /\ results' = IF Len(matchedRules) > 0
                  THEN Append(results,
                              [entries[entryIdx] EXCEPT !.MatchedRules = matchedRules])
                  ELSE results
    /\ entryIdx' = entryIdx + 1
    /\ pc' = "ready"
    /\ UNCHANGED <<fs, engine, rules, dirIdx, warned, contributed, entries,
                   ruleIdx, matchedRules, call>>

\* processLogs returns results
ProcessLogsReturn ==
    /\ pc = "ready"
    /\ entryIdx > Len(entries)
    /\ pc' = "done"
    /\ UNCHANGED <<fs, engine, rules, dirIdx, warned, contributed, entries,
                   entryIdx, ruleIdx, matchedRules, results, call>>

Next ==
    \/ NewEngine
    \/ LoadRulesStep
    \/ NewEngineReturn
    \/ EvaluateCall
    \/ EvaluateStep
    \/ EvaluateReturn
    \/ ProcessLogsReturn

(***************************************************************************)
(* Inputs: rule files, directory trees and log entries.                    *)
(***************************************************************************)
Detection(selection, condition) ==
    MapV(("selection" :> selection) @@ ("condition" :> StringV(condition)))

Rule(id, title, logsource, detection) ==
    [ID |-> id, Title |-> title, Logsource |-> logsource, Detection |-> detection]

SyslogSource == [Category |-> "process", Product |-> "linux", Service |-> "syslog"]
AuditdOnly == [Category |-> "", Product |-> "", Service |-> "auditd"]

StrTestMessage == <<"t","e","s","t"," ","m","e","s","s","a","g","e">>
StrTest == <<"t","e","s","t">>
StrServer1 == <<"s","e","r","v","e","r","1">>
StrOther == <<"o","t","h","e","r">>
StrFAILED == <<"F","A","I","L","E","D">>
StrFailed == <<"F","a","i","l","e","d">>
StrCaretFailed == <<"^","F","a","i","l","e","d">>
StrThisIsATestMessage == <<"T","h","i","s"," ","i","s"," ","a"," ","t","e","s","t"," ","m","e","s","s","a","g","e">>
StrThisIsNotATestMessage == <<"T","h","i","s"," ","i","s"," ","n","o","t"," ","a"," ","t","e","s","t"," ","m","e","s","s","a","g","e">>
StrThisIsNotATest == <<"t","h","i","s"," ","i","s"," ","n","o","t"," ","a"," ","t","e","s","t">>
StrATESTMessage == <<"A"," ","T","E","S","T"," ","M","e","s","s","a","g","e">>
StrFailedPassword == <<"F","a","i","l","e","d"," ","p","a","s","s","w","o","r","d">>
StrPasswordFailed == <<"p","a","s","s","w","o","r","d"," ","F","a","i","l","e","d">>
StrTimestamp1 == <<"2","0","2","5","-","0","1","-","0","1","T","1","0",":","3","0",":","1","5",".","0","0","0">>
StrTimestamp2 == <<"2","0","2","5","-","0","1","-","0","1","T","1","0",":","3","0",":","1","6",".","0","0","0">>
CondSelAAndSelB == <<"s","e","l","_","a"," ","a","n","d"," ","s","e","l","_","b">>
CondSelAOrSelB == <<"s","e","l","_","a"," ","o","r"," ","s","e","l","_","b">>
CondSELECTION == <<"S","E","L","E","C","T","I","O","N">>
CondMessageAndHostname == <<"m","e","s","s","a","g","e"," ","a","n","d"," ","h","o","s","t","n","a","m","e">>
CondMessageOrHostname == <<"m","e","s","s","a","g","e"," ","o","r"," ","h","o","s","t","n","a","m","e">>

MessageHas(s) == MapV(FieldMessage :> StringV(s))
HostnameHas(s) == MapV(FieldHostname :> StringV(s))

\* the rule of TestNewEngine and TestEngine_Match
TestRule001 ==
    Rule("test-rule-001", "Test Rule", SyslogSource,
         Detection(MapV(FieldMessage :> ListV(<<StringV(StrTestMessage)>>)), StrSelection))

\* the same detection without a log-source filter
TestRuleAny ==
    Rule("test-rule-any", "Test Rule", NoLogSource,
         Detection(MapV(FieldMessage :> ListV(<<StringV(StrTestMessage)>>)), StrSelection))

RuleAuditdOnly ==
    Rule("auditd-only", "Auditd", AuditdOnly, Detection(MessageHas(StrTest), StrSelection))

\* two named selection blocks, combined by the condition
RuleTwoBlocks(id, condition) ==
    Rule(id, "Two blocks", NoLogSource,
         MapV(("sel_a" :> MessageHas(StrTest)) @@ ("sel_b" :> HostnameHas(StrServer1))
              @@ ("condition" :> StringV(condition))))

\* a block named selection beside a second block that no record satisfies
RuleSelectionAndFilter ==
    Rule("selection-filter", "Two blocks", NoLogSource,
         MapV(("selection" :> MessageHas(StrTest)) @@ ("filter" :> HostnameHas(StrOther))
              @@ ("condition" :> StringV(StrSelection))))

RuleEmptyCondition ==
    Rule("empty-condition", "Empty", NoLogSource, Detection(MessageHas(StrTest), <<>>))

RuleUpperCondition ==
    Rule("upper-condition", "Upper", NoLogSource, Detection(MessageHas(StrTest), CondSELECTION))

RuleTwoFields ==
    Rule("two-fields", "Two fields", NoLogSource,
         Detection(MapV((FieldMessage :> StringV(StrTest)) @@ (FieldHostname :> StringV(StrOther))),
                   StrSelection))

RuleFieldsAnd ==
    Rule("fields-and", "Fields", NoLogSource,
         Detection(MapV((FieldMessage :> StringV(StrTest)) @@ (FieldHostname :> StringV(StrServer1))),
                   CondMessageAndHostname))

RuleFieldsOr ==
    Rule("fields-or", "Fields", NoLogSource,
         Detection(MapV((FieldMessage :> StringV(StrFailed)) @@ (FieldHostname :> StringV(StrOther))),
                   CondMessageOrHostname))

RuleRegex ==
    Rule("regex", "Regex", NoLogSource,
         Detection(MessageHas(PrefixRe \o StrCaretFailed), StrSelection))

RuleBadRegex ==
    Rule("bad-regex", "Regex", NoLogSource,
         Detection(MessageHas(PrefixRe \o <<"(">> \o StrFailed), StrSelection))

RuleNestedRegex ==
    Rule("nested-regex", "Regex", NoLogSource,
         Detection(MapV(FieldMessage :> MapV("re" :> StringV(StrCaretFailed))), StrSelection))

\* a nested mapping with two modifiers at once
RuleTwoModifiers ==
    Rule("two-modifiers", "Modifiers", NoLogSource,
         Detection(MapV(FieldMessage :> MapV(("contains" :> StringV(StrTest))
                                             @@ ("startswith" :> StringV(StrTest)))),
                   StrSelection))

RuleEmptySelection ==
    Rule("empty-selection", "Empty", NoLogSource, Detection(MapV(<<>>), StrSelection))

\* a selection the decoder left as a mapping of another Go type than
\* map[string]interface{} (map[interface{}]interface{}, say)
RuleUntypedSelection ==
    Rule("untyped-selection", "Untyped", NoLogSource,
         Detection(OtherV(<<"m","a","p","[","]">>), StrSelection))

EvalRules ==
    {TestRule001, TestRuleAny, RuleAuditdOnly,
     RuleTwoBlocks("two-and", CondSelAAndSelB), RuleTwoBlocks("two-or", CondSelAOrSelB),
     RuleSelectionAndFilter, RuleEmptyCondition, RuleUpperCondition, RuleTwoFields,
     RuleFieldsAnd, RuleFieldsOr, RuleRegex, RuleBadRegex, RuleNestedRegex,
     RuleUntypedSelection, RuleTwoModifiers}

Entry(timestamp, message, category, service) ==
    [Timestamp |-> timestamp, Hostname |-> StrServer1, Program |-> StrTest, PID |-> <<>>,
     Message |-> message, Category |-> category, Product |-> "linux", Service |-> service,
     Fields |-> <<>>, MatchedRules |-> <<>>]

\* the two entries of TestEngine_Match
TestEntry1 == Entry(StrTimestamp1, StrThisIsATestMessage, "process", "syslog")
TestEntry2 == Entry(StrTimestamp2, StrThisIsNotATestMessage, "process", "syslog")

EvalEntries ==
    {TestEntry1, TestEntry2,
     Entry(StrTimestamp1, StrThisIsNotATest, "process", "syslog"),
     Entry(StrTimestamp1, StrFailedPassword, "process", "syslog"),
     Entry(StrTimestamp2, StrPasswordFailed, "process", "journald"),
     Entry(StrTimestamp2, StrATESTMessage, "audit", "auditd")}

\* the sequences without repetition of at most n elements of S
RECURSIVE SeqsUpTo(_, _)
SeqsUpTo(S, n) ==
    IF n = 0 THEN {<<>>}
    ELSE LET shorter == SeqsUpTo(S, n - 1)
         IN shorter \cup {Append(q, x) : q \in shorter, x \in S}

Range(q) == {q[i] : i \in 1..Len(q)}

EntryLists(S) ==
    {q \in SeqsUpTo(S, MaxEntries) : Cardinality(Range(q)) = Len(q)}

\* the directory trees: the files, and the directories that exist (the
\* ancestors of the files, or every searched directory, or not even rulesDir)
AllDirs == {SearchDirs[i] : i \in 1..Len(SearchDirs)}

Ancestors(files) ==
    {d \in AllDirs : d = <<>> \/ \E p \in DOMAIN files : IsUnder(p, d)}

\* the trees of at most MaxFiles files, the file at path p holding one of contentsAt[p]
Disks(paths, contentsAt) ==
    LET everything == UNION {contentsAt[p] : p \in paths}
        placed == UNION {[P -> everything] :
                            P \in {Q \in SUBSET paths : Cardinality(Q) <= MaxFiles}}
        files == {f \in placed : \A p \in DOMAIN f : f[p] \in contentsAt[p]}
    IN {[dirs |-> {}, files |-> <<>>]}
       \cup UNION {{[dirs |-> D, files |-> f] : D \in {Ancestors(f), AllDirs}} : f \in files}

\* what the load-centred specification puts into rule files
RuleA == Rule("rule-a", "Rule A", NoLogSource, Detection(MessageHas(StrTest), StrSelection))
RuleB == Rule("rule-b", "Rule B", SyslogSource, Detection(MessageHas(StrFailed), StrSelection))

LoadContents ==
    {Unreadable, BadYaml,
     RuleFile(RuleA), RuleFile(RuleB),
     RuleFile([RuleA EXCEPT !.ID = ""]),
     RuleFile([RuleA EXCEPT !.Title = ""]),
     RuleFile([RuleA EXCEPT !.Detection = NilV]),
     RuleFile(RuleTwoBlocks("two-and", CondSelAAndSelB)),
     RuleFile([RuleA EXCEPT !.Detection = MapV("selection" :> MessageHas(StrTest))]),
     RuleFile([RuleA EXCEPT !.Detection =
                  MapV(("selection" :> NilV) @@ ("condition" :> StringV(StrSelection)))])}

\* a file without a rule suffix holds a well-formed rule all the same
LoadContentsAt ==
    [p \in Paths |-> IF HasRuleSuffix(p) THEN LoadContents ELSE {RuleFile(RuleA)}]

\* every rule of EvalRules is tried alone and beside a second rule file
EvalContentsAt ==
    [p \in {<<"a.yml">>, <<"z.yaml">>} |->
        IF p = <<"a.yml">> THEN {RuleFile(r) : r \in EvalRules}
        ELSE {RuleFile(TestRule001), RuleFile(RuleTwoFields)}]

\* the state before NewEngine is called
InitProgram(disk, logEntries) ==
    /\ fs = disk
    /\ entries = logEntries
    /\ pc = "start"
    /\ engine = NotReturned
    /\ rules = <<>>
    /\ dirIdx = 0
    /\ warned = <<>>
    /\ contributed = <<>>
    /\ entryIdx = 1
    /\ ruleIdx = 0
    /\ matchedRules = <<>>
    /\ results = <<>>
    /\ call = NoCall

\* rule loading: any tree of at most MaxFiles files, well-formed or not
Init ==
    \E disk \in Disks(Paths, LoadContentsAt) :
    \E logEntries \in EntryLists({TestEntry1}) :
        InitProgram(disk, logEntries)

Spec == Init /\ [][Next]_vars

\* evaluation: well-formed rule files directly in rulesDir, any entries
InitEval ==
    \E disk \in Disks({<<"a.yml">>, <<"z.yaml">>}, EvalContentsAt) :
    \E logEntries \in EntryLists(EvalEntries) :
        /\ disk.dirs \in {{}, {<<>>}}
        /\ InitProgram(disk, logEntries)

SpecEval == InitEval /\ [][Next]_vars

(***************************************************************************)
(* Single calls of the matcher, on enumerated and on named inputs.         *)
(***************************************************************************)
ValueChars == {"a", "A", "b"}
PatternChars == {"a", "A", "^", "("}

RECURSIVE StringsUpTo(_, _)
\* the strings over chars of length at most n
StringsUpTo(chars, n) ==
    IF n = 0 THEN {<<>>}
    ELSE LET shorter == StringsUpTo(chars, n - 1)
         IN shorter \cup {Append(q, c) : q \in shorter, c \in chars}

CallValues ==
    StringsUpTo(ValueChars, MaxValueLen)
    \cup {StrFailedPassword, StrPasswordFailed, StrThisIsNotATest,
          StrThisIsATestMessage, StrATESTMessage, <<"1", "2">>}

CallBodies ==
    StringsUpTo(PatternChars, MaxPatternLen)
    \cup {StrFAILED, StrFailed, StrCaretFailed, StrTestMessage}

CallPatterns ==
    {prefix \o body : prefix \in {<<>>, PrefixRe, PrefixContains, PrefixStartswith,
                                  PrefixEndswith},
                      body \in CallBodies}

MaxListLen == 2      \* most alternatives of an enumerated list criterion

\* the alternatives of the enumerated lists: plain and prefixed strings, a
\* pattern that does not compile, and a number
ListItems ==
    {StringV(<<"a">>), StringV(<<"A", "b">>), StringV(PrefixRe \o <<"^", "a">>),
     StringV(PrefixContains \o <<"b">>), StringV(PrefixRe \o <<"(">>), IntV(12)}

\* nested mappings without a usable modifier: none at all, an unknown name,
\* a known name carrying a number
UnusableModifiers ==
    {MapV(<<>>), MapV("equals" :> StringV(<<"a">>)), MapV("contains" :> IntV(12)),
     MapV("re" :> IntV(12) @@ "equals" :> StringV(<<"a">>))}

\* nested mappings with two modifiers at once
TwoModifiers ==
    {MapV(m1 :> StringV(b1) @@ m2 :> StringV(b2)) :
        m1 \in {"contains", "re"}, m2 \in {"startswith", "endswith"},
        b1 \in {<<"a">>, <<"b">>}, b2 \in {<<"a">>, <<"A", "b">>}}
    \cup {MapV("contains" :> IntV(12) @@ "endswith" :> StringV(<<"a">>))}

CallCriteria ==
    {MapV(m :> StringV(body)) : m \in ModifierNames, body \in CallBodies}
    \cup UnusableModifiers
    \cup TwoModifiers
    \cup {ListV(<<StringV(body)>>) : body \in CallBodies}
    \cup {ListV(items) : items \in StringsUpTo(ListItems, MaxListLen)}

StrUidField == <<"u","i","d">>
StrExeField == <<"e","x","e">>
StrPIDField == <<"P","I","D">>

\* the names getFieldValue is asked for: the five fixed ones, a key of the
\* fields map, a key that is absent, and a fixed name in another case
CallFields ==
    {FieldMessage, FieldHostname, FieldProgram, FieldPid, FieldTimestamp,
     StrUidField, StrExeField, StrPIDField}

\* an entry whose fields map has keys named like fixed attributes, as the
\* pid= token of an audit line gives, and an entry without fields
CallEntries ==
    {TestEntry1,
     [TestEntry1 EXCEPT !.PID = <<"4","5","6">>,
                        !.Fields = (FieldPid :> <<"5","6","7","8">>)
                                   @@ (FieldMessage :> StrOther)
                                   @@ (StrUidField :> <<"1","0","0","0">>)]}

CallRules == {TestRuleAny, RuleRegex, RuleBadRegex, RuleNestedRegex, RuleEmptySelection}

EntryWithMessage(value) == Entry(StrTimestamp1, value, "process", "syslog")

\* names of the result map and of the condition strings handed to evaluateCondition
MapNames == {<<"a">>, <<"b">>, <<"c">>, <<"S">>}
CondNames == {<<"a">>, <<"b">>, <<"S">>, <<"x">>}
CallMatches == UNION {[keys -> BOOLEAN] : keys \in SUBSET MapNames}
CallConditions ==
    {<<>>, StrSelection, CondSELECTION}
    \cup CondNames
    \cup {<<" ">> \o n : n \in CondNames}
    \cup {l \o sep \o r : l \in CondNames, sep \in {SepAnd, SepOr}, r \in CondNames}
    \cup {l \o <<" ">> \o SepAnd \o <<" ">> \o r : l, r \in {<<"a">>, <<"b">>}}
    \cup {l \o s1 \o m \o s2 \o r : l, m, r \in {<<"a">>, <<"b">>, <<"c">>},
                                    s1, s2 \in {SepAnd, SepOr}}

InitMatch ==
    /\ call \in {[fn |-> "matchString", value |-> v, pattern |-> p,
                  returned |-> FALSE, result |-> FALSE] :
                     v \in CallValues, p \in CallPatterns}
          \cup {[fn |-> "evaluateField", value |-> v, criteria |-> c,
                 returned |-> FALSE, result |-> FALSE] :
                     v \in CallValues, c \in CallCriteria}
          \cup {[fn |-> "matchesRule", value |-> v, rule |-> r,
                 returned |-> FALSE, result |-> FALSE] :
                     v \in CallValues, r \in CallRules}
          \cup {[fn |-> "getFieldValue", entry |-> e, field |-> f,
                 returned |-> FALSE, result |-> <<>>] :
                     e \in CallEntries, f \in CallFields}
          \cup {[fn |-> "evaluateCondition", matches |-> m, condition |-> c,
                 returned |-> FALSE, result |-> FALSE] :
                     m \in CallMatches, c \in CallConditions}
    /\ pc = "call"
    /\ fs = [dirs |-> {}, files |-> <<>>]
    /\ entries = <<>>
    /\ engine = NotReturned
    /\ rules = <<>>
    /\ dirIdx = 0
    /\ warned = <<>>
    /\ contributed = <<>>
    /\ entryIdx = 1
    /\ ruleIdx = 0
    /\ matchedRules = <<>>
    /\ results = <<>>

program == <<fs, pc, engine, rules, dirIdx, warned, contributed, entries, entryIdx,
             ruleIdx, matchedRules, results>>

\* e.matchString(value, pattern)
MatchStringCall ==
    /\ pc = "call"
    /\ call.fn = "matchString"
    /\ ~call.returned
    /\ call' = [call EXCEPT !.returned = TRUE,
                            !.result = MatchString(call.value, call.pattern)]
    /\ UNCHANGED program

\* e.evaluateField(entry, "message", criteria) on an entry with the message value
EvaluateFieldCall ==
    /\ pc = "call"
    /\ call.fn = "evaluateField"
    /\ ~call.returned
    /\ \E r \in EvaluateField(EntryWithMessage(call.value), FieldMessage, call.criteria) :
           call' = [call EXCEPT !.returned = TRUE, !.result = r]
    /\ UNCHANGED program

\* e.matchesRule(entry, rule) on an entry with the message value
MatchesRuleCall ==
    /\ pc = "call"
    /\ call.fn = "matchesRule"
    /\ ~call.returned
    /\ \E r \in MatchesRule(EntryWithMessage(call.value), call.rule) :
           call' = [call EXCEPT !.returned = TRUE, !.result = r]
    /\ UNCHANGED program

\* e.getFieldValue(entry, field)
GetFieldValueCall ==
    /\ pc = "call"
    /\ call.fn = "getFieldValue"
    /\ ~call.returned
    /\ call' = [call EXCEPT !.returned = TRUE,
                            !.result = GetFieldValue(call.entry, call.field)]
    /\ UNCHANGED program

\* e.evaluateCondition(matches, condition)
EvaluateConditionCall ==
    /\ pc = "call"
    /\ call.fn = "evaluateCondition"
    /\ ~call.returned
    /\ call' = [call EXCEPT !.returned = TRUE,
                            !.result = EvaluateCondition(call.matches, call.condition)]
    /\ UNCHANGED program

NextMatch ==
    \/ MatchStringCall
    \/ EvaluateFieldCall
    \/ MatchesRuleCall
    \/ GetFieldValueCall
    \/ EvaluateConditionCall

SpecMatch == InitMatch /\ [][NextMatch]_vars

(***************************************************************************)
(* Properties.                                                             *)
(***************************************************************************)
\* Evaluate has gone through every rule and is about to return matchedRules
EvaluateDone == pc = "evaluating" /\ ruleIdx > Len(rules)

\* the entry Evaluate is working on
CurrentEntry == entries[entryIdx]

\* each non-empty attribute of the filter equals the entry's attribute
FilterSatisfied(entry, filter) ==
    /\ filter.Category \in {"", entry.Category}
    /\ filter.Product \in {"", entry.Product}
    /\ filter.Service \in {"", entry.Service}

\* a selection block is the AND of its field criteria
BlockTrue(entry, block) ==
    \A f \in DOMAIN block.m : EvaluateField(entry, f, block.m[f]) = {TRUE}

\* the named selection blocks of a detection body
BlockNames(d) == {k \in DOMAIN d : k # "condition" /\ d[k].k = "map"}

\* the rules that rule files of the tree hold
RulesOnDisk ==
    {fs.files[p].rule : p \in {q \in DOMAIN fs.files :
                                  HasRuleSuffix(q) /\ fs.files[q].kind = "rule"}}

C2_TwoBlocksCombinedByCondition ==
    EvaluateDone =>
        \A r \in RulesOnDisk :
            (BlockNames(r.Detection.m) = {"sel_a", "sel_b"} /\ r.Logsource = NoLogSource) =>
                LET a == BlockTrue(CurrentEntry, r.Detection.m["sel_a"])
                    b == BlockTrue(CurrentEntry, r.Detection.m["sel_b"])
                    c == r.Detection.m["condition"].s
                IN /\ c = CondSelAAndSelB => (r.ID \in Range(matchedRules) <=> (a /\ b))
                   /\ c = CondSelAOrSelB => (r.ID \in Range(matchedRules) <=> (a \/ b))

SameLetter(c, d) == ToLowerChar(c) = ToLowerChar(d)

\* p occurs in v at some offset, letters compared without regard to case
OccursIgnoringCase(v, p) ==
    \E off \in 0..Len(v) :
        /\ off + Len(p) <= Len(v)
        /\ \A j \in 1..Len(p) : SameLetter(v[off + j], p[j])

\* p occurs in v at some offset, character for character
OccursExactly(v, p) ==
    \E off \in 0..Len(v) :
        /\ off + Len(p) <= Len(v)
        /\ \A j \in 1..Len(p) : v[off + j] = p[j]

HasModifierPrefix(pattern) ==
    \E prefix \in {PrefixRe, PrefixContains, PrefixStartswith, PrefixEndswith} :
        HasPrefix(pattern, prefix)

C5_TestEngineMatchYieldsOneEntry ==
    (pc = "done" /\ rules = <<TestRule001>> /\ entries = <<TestEntry1, TestEntry2>>) =>
        /\ Len(results) = 1
        /\ results[1].MatchedRules[1] = "test-rule-001"

\* C6: an identifier is returned only for a rule whose log-source filter
\* the record satisfies: a returned rule never differs from the record in
\* a non-empty filter attribute.
C6_NoFireAcrossLogSources ==
    EvaluateDone =>
        /\ \A k \in 1..Len(matchedRules) :
               \E i \in 1..Len(rules) :
                   /\ rules[i].ID = matchedRules[k]
                   /\ FilterSatisfied(CurrentEntry, rules[i].Logsource)
        /\ (CurrentEntry.Service = "syslog"
                /\ \A i \in 1..Len(rules) :
                       rules[i].ID = "auditd-only" => rules[i].Logsource.Service = "auditd")
           => "auditd-only" \notin Range(matchedRules)

\* the rule filtered to auditd has been evaluated against a syslog record
\* that its selection matches, and is not among the returned identifiers
C6_Witness ==
    /\ EvaluateDone
    /\ CurrentEntry.Service = "syslog"
    /\ \E i \in 1..Len(rules) :
           /\ rules[i] = RuleAuditdOnly
           /\ EvaluateDetection(CurrentEntry, rules[i].Detection.m) = {TRUE}
    /\ "auditd-only" \notin Range(matchedRules)

\* the characters with a meaning of their own in a regular expression
RegexMeta == {"^", "$", ".", "(", ")", "[", "]", "{", "}", "*", "+", "?", "|", "\\"}

IsLiteral(body) == \A i \in 1..Len(body) : body[i] \notin RegexMeta

\* the call matches a regular expression: criterion "|re|body" or mapping {re: body}
IsRegexCall ==
    \/ call.fn = "matchString" /\ HasPrefix(call.pattern, PrefixRe)
    \/ call.fn = "evaluateField" /\ call.criteria.k = "map" /\ DOMAIN call.criteria.m = {"re"}

RegexBody ==
    IF call.fn = "matchString" THEN SubSeq(call.pattern, Len(PrefixRe) + 1, Len(call.pattern))
    ELSE call.criteria.m["re"].s

\* v begins with p, character for character
BeginsWith(v, p) == Len(p) <= Len(v) /\ \A j \in 1..Len(p) : v[j] = p[j]

\* C7: a regex criterion matches case-sensitively and unanchored against
\* the raw value: a literal pattern matches iff it occurs in the value,
\* "^" followed by a literal matches iff the value begins with it, and a
\* pattern that does not compile yields false; the call returns in every
\* case, also inside the evaluation of a whole rule.
C7_RegexIsPartialCaseSensitiveAndTolerant ==
    call.fn # "none" /\ call.returned =>
        /\ IsRegexCall =>
               /\ (\E i \in 1..Len(RegexBody) : RegexBody[i] \in {"(", "["}) => ~call.result
               /\ IsLiteral(RegexBody) =>
                      (call.result <=> OccursExactly(call.value, RegexBody))
               /\ (RegexBody # <<>> /\ RegexBody[1] = "^" /\ IsLiteral(Tail(RegexBody))) =>
                      (call.result <=> BeginsWith(call.value, Tail(RegexBody)))
        /\ (call.fn = "matchesRule" /\ call.rule \in {RuleRegex, RuleNestedRegex}) =>
               (call.result <=> BeginsWith(call.value, StrFailed))
        /\ (call.fn = "matchesRule" /\ call.rule = RuleBadRegex) => ~call.result

\* the rule with the malformed pattern has been evaluated against a record
\* whose message holds the pattern's text, and the call returned false
C7_Witness ==
    /\ call.fn = "matchesRule"
    /\ call.rule = RuleBadRegex
    /\ call.value = StrFailedPassword
    /\ call.returned
    /\ ~call.result

\* the file does not yield a rule: it cannot be read or parsed, or lacks its
\* identifier, title or detection body
Unloadable(content) ==
    \/ content.kind \in {"unreadable", "badyaml"}
    \/ content.rule.ID = ""
    \/ content.rule.Title = ""
    \/ content.rule.Detection.k = "nil"

\* the file passes loadRule and validateRule
Loadable(content) ==
    /\ LoadRule(content).err = "nil"
    /\ ValidateRule(LoadRule(content).rule) = "nil"

RuleFilesOnDisk == {p \in DOMAIN fs.files : HasRuleSuffix(p)}

\* C8: a rule file that cannot be read or parsed, or lacks identifier,
\* title or detection body, is left out with a warning; NewEngine returns
\* an engine and no error, and every valid rule file is loaded.
C8_BadRuleFilesAreSkipped ==
    engine.returned =>
        /\ engine.nonNil
        /\ ~engine.err
        /\ \A p \in RuleFilesOnDisk :
               /\ Unloadable(fs.files[p]) =>
                      /\ \E k \in 1..Len(warned) : warned[k].at = p
                      /\ fs.files[p].kind = "rule" => fs.files[p].rule \notin Range(rules)
               /\ Loadable(fs.files[p]) => fs.files[p].rule \in Range(rules)

\* a.yml is malformed YAML and z.yaml, visited after it in the same
\* directory, is loaded
C8_Witness ==
    /\ engine.returned
    /\ <<"a.yml">> \in DOMAIN fs.files
    /\ <<"z.yaml">> \in DOMAIN fs.files
    /\ fs.files[<<"a.yml">>] = BadYaml
    /\ fs.files[<<"z.yaml">>] = RuleFile(RuleB)
    /\ RuleB \in Range(rules)

\* C9: a parsed rule with identifier and title is kept iff its detection
\* body holds at least one named selection block, of any name, and a
\* condition expression.
C9_AnyNamedBlockIsAccepted ==
    engine.returned =>
        \A p \in RuleFilesOnDisk :
            LET c == fs.files[p]
            IN (c.kind = "rule" /\ c.rule.ID # "" /\ c.rule.Title # ""
                    /\ c.rule.Detection.k = "map") =>
                   (c.rule \in Range(rules)
                      <=> /\ BlockNames(c.rule.Detection.m) # {}
                          /\ "condition" \in DOMAIN c.rule.Detection.m
                          /\ c.rule.Detection.m["condition"].k = "string")

\* the number of loadable rule files in the tree rooted at dir
LoadableUnder(dir) ==
    Cardinality({p \in RuleFilesOnDisk : IsUnder(p, dir) /\ Loadable(fs.files[p])})

\* C10: NewEngine returns an engine and no error whichever directories are
\* missing; a missing directory contributes no rule, and every existing
\* directory of the list contributes all the loadable files under it.
C10_MissingDirectoriesAreTolerated ==
    engine.returned =>
        /\ engine.nonNil
        /\ ~engine.err
        /\ Len(contributed) = Len(SearchDirs)
        /\ \A i \in 1..Len(SearchDirs) :
               IF SearchDirs[i] \in fs.dirs
               THEN contributed[i] = LoadableUnder(SearchDirs[i])
               ELSE contributed[i] = 0

\* rulesDir exists, rulesDir/linux does not, and the walk of
\* rulesDir/external/custom, later in the list, loaded a rule
C10_Witness ==
    /\ engine.returned
    /\ <<>> \in fs.dirs
    /\ <<"linux">> \notin fs.dirs
    /\ contributed[2] = 0
    /\ contributed[9] > 0

(***************************************************************************)
(* The Log Normalizer: the lexical patterns of the three parsers           *)
(* (internal/parser).  Each pattern is anchored at both ends and every     *)
(* repetition in it is followed by a character outside its class, so a     *)
(* line has at most one way to match up to the program token; there the    *)
(* greedy (\S+) is given the longest program the rest of the pattern still *)
(* accepts, and the optional pid group is tried before the bare colon.     *)
(* FindStringSubmatch yields the empty slice for a line without a match.   *)
(***************************************************************************)
DigitChars == {Digits[i] : i \in 1..Len(Digits)}
WordChars ==
    DigitChars \cup {UpperCase[i] : i \in 1..Len(UpperCase)}
               \cup {LowerCase[i] : i \in 1..Len(LowerCase)} \cup {"_"}
SpaceChars == {" ", "\t", "\n", "\f", "\r"}

RECURSIVE Span(_, _, _)
\* the offset after the longest run of characters of chars that starts at i
Span(s, i, chars) ==
    IF i <= Len(s) /\ s[i] \in chars THEN Span(s, i + 1, chars) ELSE i

RECURSIVE SpanNot(_, _, _)
\* the offset after the longest run of characters outside chars that starts at i
SpanNot(s, i, chars) ==
    IF i <= Len(s) /\ s[i] \notin chars THEN SpanNot(s, i + 1, chars) ELSE i

CharAt(s, i, c) == i <= Len(s) /\ s[i] = c
HasAt(s, i, lit) == i + Len(lit) - 1 <= Len(s) /\ SubSeq(s, i, i + Len(lit) - 1) = lit
DigitsAt(s, i, n) == i + n - 1 <= Len(s) /\ \A k \in i..(i + n - 1) : s[k] \in DigitChars

\* \d{2}:\d{2}:\d{2} at offset i
ClockAt(s, i) ==
    /\ DigitsAt(s, i, 2) /\ CharAt(s, i + 2, ":")
    /\ DigitsAt(s, i + 3, 2) /\ CharAt(s, i + 5, ":")
    /\ DigitsAt(s, i + 6, 2)

NoMatch == <<>>

\* \s+(\S+)\s+(\S+)(?:\[(\d+)\])?:\s*(.*)$ from offset i, the part the syslog
\* and journald patterns share: <<hostname, program, pid, message>> or NoMatch
HostProgramMessage(line, i) ==
    LET f == Span(line, i, SpaceChars)
        g == SpanNot(line, f, SpaceChars)
        h == Span(line, g, SpaceChars)
        runEnd == SpanNot(line, h, SpaceChars)
        PidEnd(e) == Span(line, e + 2, DigitChars)
        WithPid(e) == /\ CharAt(line, e + 1, "[")
                      /\ PidEnd(e) > e + 2
                      /\ CharAt(line, PidEnd(e), "]")
                      /\ CharAt(line, PidEnd(e) + 1, ":")
        WithoutPid(e) == CharAt(line, e + 1, ":")
        ends == {e \in h..(runEnd - 1) : WithPid(e) \/ WithoutPid(e)}
    IN IF f > i /\ g > f /\ h > g /\ ends # {}
       THEN LET e == CHOOSE x \in ends : \A y \in ends : y <= x
                pid == IF WithPid(e) THEN SubSeq(line, e + 2, PidEnd(e) - 1) ELSE <<>>
                colon == IF WithPid(e) THEN PidEnd(e) + 1 ELSE e + 1
                m == Span(line, colon + 1, SpaceChars)
            IN <<SubSeq(line, f, g - 1), SubSeq(line, h, e), pid,
                 SubSeq(line, m, Len(line))>>
       ELSE NoMatch

\* ^(\w{3}\s+\d{1,2}\s+\d{2}:\d{2}:\d{2})\s+(\S+)\s+(\S+)(?:\[(\d+)\])?:\s*(.*)$
SyslogRegex(line) ==
    LET b == Span(line, 4, SpaceChars)
        c == Span(line, b, DigitChars)
        d == Span(line, c, SpaceChars)
        stamped == /\ Len(line) >= 3
                   /\ \A k \in 1..3 : line[k] \in WordChars
                   /\ b > 4
                   /\ c - b \in {1, 2}
                   /\ d > c
                   /\ ClockAt(line, d)
        rest == HostProgramMessage(line, d + 8)
    IN IF stamped /\ rest # NoMatch
       THEN <<line, SubSeq(line, 1, d + 7)>> \o rest
       ELSE NoMatch

\* ^(\d{4}-\d{2}-\d{2}T\d{2}:\d{2}:\d{2}(?:\.\d+)?(?:Z|[+-]\d{2}:\d{2})?)
\*  \s+(\S+)\s+(\S+)(?:\[(\d+)\])?:\s*(.*)$
JournaldRegex(line) ==
    LET dated == /\ DigitsAt(line, 1, 4) /\ CharAt(line, 5, "-")
                 /\ DigitsAt(line, 6, 2) /\ CharAt(line, 8, "-")
                 /\ DigitsAt(line, 9, 2) /\ CharAt(line, 11, "T")
                 /\ ClockAt(line, 12)
        q == IF CharAt(line, 20, ".") /\ Span(line, 21, DigitChars) > 21
             THEN Span(line, 21, DigitChars) ELSE 20
        z == IF CharAt(line, q, "Z") THEN q + 1
             ELSE IF /\ (CharAt(line, q, "+") \/ CharAt(line, q, "-"))
                     /\ DigitsAt(line, q + 1, 2) /\ CharAt(line, q + 3, ":")
                     /\ DigitsAt(line, q + 4, 2)
             THEN q + 6 ELSE q
        rest == HostProgramMessage(line, z)
    IN IF dated /\ rest # NoMatch
       THEN <<line, SubSeq(line, 1, z - 1)>> \o rest
       ELSE NoMatch

StrTypeEq == <<"t","y","p","e","=">>
StrMsgAudit == <<"m","s","g","=","a","u","d","i","t","(">>

\* ^type=(\S+)\s+msg=audit\((\d+\.\d+):(\d+)\):\s*(.*)$
AuditdRegex(line) ==
    LET b == SpanNot(line, 6, SpaceChars)
        c == Span(line, b, SpaceChars)
        d == c + Len(StrMsgAudit)
        e == Span(line, d, DigitChars)
        f == Span(line, e + 1, DigitChars)
        g == Span(line, f + 1, DigitChars)
        m == Span(line, g + 2, SpaceChars)
    IN IF /\ HasAt(line, 1, StrTypeEq) /\ b > 6 /\ c > b
          /\ HasAt(line, c, StrMsgAudit)
          /\ e > d /\ CharAt(line, e, ".")
          /\ f > e + 1 /\ CharAt(line, f, ":")
          /\ g > f + 1 /\ CharAt(line, g, ")") /\ CharAt(line, g + 1, ":")
       THEN <<line, SubSeq(line, 6, b - 1), SubSeq(line, d, f - 1),
              SubSeq(line, f + 1, g - 1), SubSeq(line, m, Len(line))>>
       ELSE NoMatch

RECURSIVE FieldRegexFindAll(_, _)
\* (\w+)=([^\s]+) with FindAllStringSubmatch: the matches from offset i on,
\* leftmost first and not overlapping, each as <<key, value>>
FieldRegexFindAll(s, i) ==
    IF i > Len(s) THEN <<>>
    ELSE LET r == Span(s, i, WordChars)
             v == SpanNot(s, r + 1, SpaceChars)
         IN IF r > i /\ CharAt(s, r, "=") /\ v > r + 1
            THEN <<<<SubSeq(s, i, r - 1), SubSeq(s, r + 1, v - 1)>>>>
                 \o FieldRegexFindAll(s, v)
            ELSE FieldRegexFindAll(s, i + 1)

(***************************************************************************)
(* The canonical timestamp: time.Parse of the captured text with the       *)
(* parser's layouts, then Format("2006-01-02T15:04:05.000").  The clock    *)
(* and the zone of the machine are fixed values of the environment.        *)
(***************************************************************************)
CurrentYear == 2025        \* time.Now().Year()
LocalOffset == 0           \* seconds east of UTC of time.Local
StrNow == <<"2","0","2","5","-","0","6","-","1","5","T","1","2",":","0","0",":","0","0",".","0","0","0">>     \* time.Now(), formatted
StrZeroTime == <<"0","0","0","1","-","0","1","-","0","1","T","0","0",":","0","0",":","0","0",".","0","0","0">>

MonthNames == <<<<"j","a","n">>, <<"f","e","b">>, <<"m","a","r">>, <<"a","p","r">>, <<"m","a","y">>, <<"j","u","n">>, <<"j","u","l">>, <<"a","u","g">>, <<"s","e","p">>, <<"o","c","t">>, <<"n","o","v">>, <<"d","e","c">>>>

RECURSIVE Atoi(_)
\* the number a string of decimal digits denotes
Atoi(s) ==
    IF s = <<>> THEN 0
    ELSE Atoi(SubSeq(s, 1, Len(s) - 1)) * 10
         + ((CHOOSE i \in 1..Len(Digits) : Digits[i] = s[Len(s)]) - 1)

Pad2(n) == <<Digits[(n \div 10) + 1], Digits[(n % 10) + 1]>>
Pad4(n) == Pad2(n \div 100) \o Pad2(n % 100)

IsLeap(year) == year % 4 = 0 /\ (year % 100 # 0 \/ year % 400 = 0)

DaysIn(month, year) ==
    IF month = 2 THEN (IF IsLeap(year) THEN 29 ELSE 28)
    ELSE IF month \in {4, 6, 9, 11} THEN 30 ELSE 31

ValidDate(year, month, day) ==
    month \in 1..12 /\ day >= 1 /\ day <= DaysIn(month, year)

ValidClock(hour, min, sec) == hour < 24 /\ min < 60 /\ sec < 60

\* yyyy-mm-ddThh:mm:ss.mmm
FormatTime(year, month, day, clock, millis) ==
    Pad4(year) \o <<"-">> \o Pad2(month) \o <<"-">> \o Pad2(day) \o <<"T">>
    \o clock \o <<".">> \o millis

StrMillis0 == <<"0","0","0">>

\* time.Parse(layout, value) for the layouts "2006 Jan  2 15:04:05" (with
\* the year put in front of the captured text) and "Jan  2 15:04:05" (year 0):
\* the month is looked up by name without regard to case, a run of blanks in
\* the layout stands for a run of blanks in the value, and the date and the
\* clock must be in range
ParseStamp(stamp, year) ==
    LET name == ToLower(SubSeq(stamp, 1, 3))
        b == Span(stamp, 4, {" "})
        c == Span(stamp, b, DigitChars)
        d == Span(stamp, c, {" "})
        month == IF \E i \in 1..12 : MonthNames[i] = name
                 THEN CHOOSE i \in 1..12 : MonthNames[i] = name ELSE 0
        day == Atoi(SubSeq(stamp, b, c - 1))
        clock == SubSeq(stamp, d, Len(stamp))
    IN IF /\ b > 4 /\ c > b /\ d > c /\ d + 7 = Len(stamp)
          /\ ValidDate(year, month, day)
          /\ ValidClock(Atoi(SubSeq(clock, 1, 2)), Atoi(SubSeq(clock, 4, 5)),
                        Atoi(SubSeq(clock, 7, 8)))
       THEN [ok |-> TRUE, text |-> FormatTime(year, month, day, clock, StrMillis0)]
       ELSE [ok |-> FALSE, text |-> StrZeroTime]

\* SyslogParser.Parse: the current year is put in front; if that does not
\* parse, the text is parsed without a year and an error leaves the zero time
SyslogTimestamp(stamp) ==
    IF ParseStamp(stamp, CurrentYear).ok THEN ParseStamp(stamp, CurrentYear).text
    ELSE ParseStamp(stamp, 0).text

\* JournaldParser.Parse: time.RFC3339 when the text carries a zone, else the
\* layout without a zone (a fraction after the seconds is accepted by both);
\* the wall clock of the text is kept, the fraction cut or filled to three
\* digits; a text that is out of range gives time.Now()
JournaldTimestamp(stamp) ==
    LET year == Atoi(SubSeq(stamp, 1, 4))
        month == Atoi(SubSeq(stamp, 6, 7))
        day == Atoi(SubSeq(stamp, 9, 10))
        clock == SubSeq(stamp, 12, 19)
        q == IF CharAt(stamp, 20, ".") THEN Span(stamp, 21, DigitChars) ELSE 20
        fraction == SubSeq(stamp, 21, q - 1)
        zoned == q + 5 = Len(stamp)
        zoneOk == zoned => /\ Atoi(SubSeq(stamp, q + 1, q + 2)) < 24
                           /\ Atoi(SubSeq(stamp, q + 4, q + 5)) < 60
    IN IF /\ ValidDate(year, month, day)
          /\ ValidClock(Atoi(SubSeq(clock, 1, 2)), Atoi(SubSeq(clock, 4, 5)),
                        Atoi(SubSeq(clock, 7, 8)))
          /\ zoneOk
       THEN FormatTime(year, month, day, clock,
                       SubSeq(fraction \o StrMillis0, 1, 3))
       ELSE StrNow

\* the civil date of a day number counted from 1970-01-01
CivilFromDays(days) ==
    LET z == days + 719468
        era == z \div 146097
        doe == z - era * 146097
        yoe == (doe - (doe \div 1460) + (doe \div 36524) - (doe \div 146096)) \div 365
        doy == doe - (365 * yoe + (yoe \div 4) - (yoe \div 100))
        mp == (5 * doy + 2) \div 153
        m == IF mp < 10 THEN mp + 3 ELSE mp - 9
    IN [year |-> yoe + era * 400 + (IF m <= 2 THEN 1 ELSE 0),
        month |-> m,
        day |-> doy - ((153 * mp + 2) \div 5) + 1]

\* mustParseFloat, then the conversion to int64: the whole seconds
MustParseFloat(s) == Atoi(SubSeq(s, 1, Index(s, <<".">>) - 1))

\* time.Unix(sec, 0).Format(...) in the local zone
AuditdTimestamp(epoch) ==
    LET sec == MustParseFloat(epoch) + LocalOffset
        date == CivilFromDays(sec \div 86400)
        inDay == sec % 86400
    IN FormatTime(date.year, date.month, date.day,
                  Pad2(inDay \div 3600) \o <<":">> \o Pad2((inDay % 3600) \div 60)
                  \o <<":">> \o Pad2(inDay % 60),
                  StrMillis0)

(***************************************************************************)
(* The three parsers.  A log file is [status, lines]: status "missing"     *)
(* (os.Stat reports that the path does not exist), "denied" (os.Open       *)
(* fails), "ok", or "readerr" (the scanner delivers the lines and then     *)
(* reports an error); lines are what scanner.Text() returns, in order.     *)
(***************************************************************************)
MaxLines == 2        \* most lines of a log file

StrLocalhost == <<"l","o","c","a","l","h","o","s","t">>
StrAuditd == <<"a","u","d","i","t","d">>

\* make(map[string]string)
MakeMap == <<>>

LogEntry(timestamp, hostname, prog, pid, message, category, service, fields) ==
    [Timestamp |-> timestamp, Hostname |-> hostname, Program |-> prog, PID |-> pid,
     Message |-> message, Category |-> category, Product |-> "linux",
     Service |-> service, Fields |-> fields, MatchedRules |-> <<>>]

\* entries[len(entries)-1].Message += " " + line, when there is an entry
AppendToLast(parsed, line) ==
    IF Len(parsed) > 0
    THEN [parsed EXCEPT ![Len(parsed)].Message = @ \o <<" ">> \o line]
    ELSE parsed

\* the body of SyslogParser.Parse's loop for one line
SyslogLine(parsed, line) ==
    IF line = <<>> THEN parsed
    ELSE LET matches == SyslogRegex(line)
         IN IF Len(matches) < 6 THEN AppendToLast(parsed, line)
            ELSE Append(parsed,
                        LogEntry(SyslogTimestamp(matches[2]), matches[3], matches[4],
                                 matches[5], matches[6], "process", "syslog", MakeMap))

\* the body of JournaldParser.Parse's loop for one line
JournaldLine(parsed, line) ==
    IF line = <<>> THEN parsed
    ELSE LET matches == JournaldRegex(line)
         IN IF Len(matches) < 6 THEN parsed
            ELSE Append(parsed,
                        LogEntry(JournaldTimestamp(matches[2]), matches[3], matches[4],
                                 matches[5], matches[6], "process", "journald", MakeMap))

AssignField_KeepFirst(fields, key, value) ==
    [k \in DOMAIN fields \cup {key} |-> IF k \in DOMAIN fields THEN fields[k] ELSE value]

\* entry.Fields[key] = value
AssignField(fields, key, value) ==
    [k \in DOMAIN fields \cup {key} |-> IF k = key THEN value ELSE fields[k]]

RECURSIVE AssignFields(_, _, _)
\* the loop over fieldMatches, from its i-th match on
AssignFields(fields, fieldMatches, i) ==
    IF i > Len(fieldMatches) THEN fields
    ELSE AssignFields(AssignField(fields, fieldMatches[i][1], fieldMatches[i][2]),
                      fieldMatches, i + 1)

AuditdEntry_ProcessCategory(matches) ==
    LogEntry(AuditdTimestamp(matches[3]), StrLocalhost, StrAuditd, matches[4],
             matches[5], "process", "auditd",
             AssignFields(MakeMap, FieldRegexFindAll(matches[5], 1), 1))

\* the entry AuditdParser.Parse builds from a matching line
AuditdEntry(matches) ==
    LogEntry(AuditdTimestamp(matches[3]), StrLocalhost, StrAuditd, matches[4],
             matches[5], "audit", "auditd",
             AssignFields(MakeMap, FieldRegexFindAll(matches[5], 1), 1))

\* the body of AuditdParser.Parse's loop for one line
AuditdLine(parsed, line) ==
    IF line = <<>> THEN parsed
    ELSE LET matches == AuditdRegex(line)
         IN IF Len(matches) < 5 THEN parsed
            ELSE Append(parsed, AuditdEntry(matches))

ParserTargets == {"syslog", "journald", "auditd"}

\* the loop body of the parser NewParser(target, path) returns
ParseLine(target, parsed, line) ==
    CASE target = "syslog" -> SyslogLine(parsed, line)
      [] target = "journald" -> JournaldLine(parsed, line)
      [] target = "auditd" -> AuditdLine(parsed, line)

OpenFails_MissingOnly(file) == file.status = "missing"

\* os.Stat reports a missing path, or os.Open fails
OpenFails(file) == file.status \in {"missing", "denied"}

\* scanner.Err() != nil after the loop
ScanFails(file) == file.status = "readerr"

RECURSIVE ScanFrom(_, _, _, _)
\* the scanner loop from the i-th line on
ScanFrom(target, parsed, lines, i) ==
    IF i > Len(lines) THEN parsed
    ELSE ScanFrom(target, ParseLine(target, parsed, lines[i]), lines, i + 1)

\* Parse of the parser for target on the file: [entries, err]
Parse(target, file) ==
    IF OpenFails(file) \/ ScanFails(file)
    THEN [entries |-> <<>>, err |-> TRUE]
    ELSE [entries |-> ScanFrom(target, <<>>, file.lines, 1), err |-> FALSE]

(***************************************************************************)
(* One call of Parse, step by step: the call record holds the parser's     *)
(* target, the file, the number of the line the scanner is at (0 before    *)
(* the file is open), the local entries slice and what was returned.       *)
(***************************************************************************)
\* os.Stat and os.Open
ParseOpen ==
    /\ call.fn = "Parse"
    /\ ~call.returned
    /\ call.line = 0
    /\ call' = IF OpenFails(call.file)
               THEN [call EXCEPT !.returned = TRUE, !.err = TRUE]
               ELSE [call EXCEPT !.line = 1]
    /\ UNCHANGED program

ParseScan(target) ==
    /\ call.fn = "Parse"
    /\ ~call.returned
    /\ call.target = target
    /\ call.line >= 1
    /\ call.line <= Len(call.file.lines)
    /\ call' = [call EXCEPT !.entries = ParseLine(target, @, call.file.lines[call.line]),
                            !.line = @ + 1]
    /\ UNCHANGED program

\* one iteration of the scanner loop of SyslogParser.Parse
SyslogParseScan == ParseScan("syslog")

\* one iteration of the scanner loop of JournaldParser.Parse
JournaldParseScan == ParseScan("journald")

\* one iteration of the scanner loop of AuditdParser.Parse
AuditdParseScan == ParseScan("auditd")

\* the scanner is at the end: the check of scanner.Err() and the return
ParseReturn ==
    /\ call.fn = "Parse"
    /\ ~call.returned
    /\ call.line > Len(call.file.lines)
    /\ call' = IF ScanFails(call.file)
               THEN [call EXCEPT !.returned = TRUE, !.err = TRUE, !.entries = <<>>]
               ELSE [call EXCEPT !.returned = TRUE]
    /\ UNCHANGED program

NextParse ==
    \/ ParseOpen
    \/ SyslogParseScan
    \/ JournaldParseScan
    \/ AuditdParseScan
    \/ ParseReturn

(***************************************************************************)
(* The log files the parsers are run on: lines built from their parts, so  *)
(* that a statement can name the host, program, pid and message a line was *)
(* written with, beside lines of no format and the empty line.             *)
(***************************************************************************)
StrSshd == <<"s","s","h","d">>
StrSudo == <<"s","u","d","o">>
StrSystemd == <<"s","y","s","t","e","m","d">>
StrKernel == <<"k","e","r","n","e","l">>
StrPid1234 == <<"1","2","3","4">>
StrPid1 == <<"1">>
StrSyslogStamp == <<"J","a","n"," "," ","1"," ","1","0",":","3","0",":","1","5">>
StrJournaldStamp == <<"2","0","2","5","-","0","1","-","0","1","T","1","0",":","3","0",":","1","5","Z">>
StrJournaldStampFraction == <<"2","0","2","5","-","0","1","-","0","1","T","1","0",":","3","0",":","1","6",".","1","2","3","Z">>
StrFailedPasswordForRoot == <<"F","a","i","l","e","d"," ","p","a","s","s","w","o","r","d"," ","f","o","r"," ","r","o","o","t">>
StrSudoMessage == <<"u","s","e","r"," ",":"," ","T","T","Y","=","p","t","s","/","0">>
StrStartedNetworkManager == <<"S","t","a","r","t","e","d"," ","N","e","t","w","o","r","k"," ","M","a","n","a","g","e","r">>
StrContinuation == <<" "," "," "," ","a","t"," ","c","o","n","t","i","n","u","a","t","i","o","n">>

\* <stamp> <host> <prog>[<pid>]: <msg>
WithPidText(w) ==
    w.stamp \o <<" ">> \o w.host \o <<" ">> \o w.prog \o <<"[">> \o w.pid
    \o <<"]", ":", " ">> \o w.msg

\* <stamp> <host> <prog>: <msg>
WithoutPidText(w) ==
    w.stamp \o <<" ">> \o w.host \o <<" ">> \o w.prog \o <<":", " ">> \o w.msg

LineParts(stamp, prog, pid, msg) ==
    [stamp |-> stamp, host |-> StrServer1, prog |-> prog, pid |-> pid, msg |-> msg]

\* the first line of TestSyslogParser_Parse (its message shortened), and a
\* line with an empty message
SyslogWithPid ==
    {LineParts(StrSyslogStamp, StrSshd, StrPid1234, StrFailedPasswordForRoot),
     LineParts(StrSyslogStamp, StrSudo, StrPid1, <<>>)}

\* the third line of TestSyslogParser_Parse (its message shortened)
SyslogWithoutPid == {LineParts(StrSyslogStamp, StrSudo, <<>>, StrSudoMessage)}

\* the lines of TestJournaldParser_Parse (the second message shortened)
JournaldWithPid ==
    {LineParts(StrJournaldStamp, StrSystemd, StrPid1, StrStartedNetworkManager),
     LineParts(StrJournaldStampFraction, StrSshd, StrPid1234, StrFailedPasswordForRoot)}

JournaldWithoutPid == {LineParts(StrJournaldStamp, StrKernel, <<>>, StrSudoMessage)}

StrSYSCALL == <<"S","Y","S","C","A","L","L">>
StrUSER == <<"U","S","E","R","_","A","U","T","H">>
StrEpoch == <<"1","6","4","0","9","9","9","9","9","9",".","1","2","3">>
StrEpochSmall == <<"8","6","3","9","9",".","5">>
StrSeq456 == <<"4","5","6">>
StrSeq7 == <<"7">>
StrArch == <<"a","r","c","h">>
StrArchValue == <<"c","0","0","0","0","0","3","e">>
StrSyscall == <<"s","y","s","c","a","l","l">>
StrOpen == <<"o","p","e","n">>
StrPidValue == <<"5","6","7","8">>
StrUid == <<"u","i","d">>
StrUid0 == <<"0">>
StrUid1000 == <<"1","0","0","0">>

RECURSIVE JoinTokens(_)
\* the tokens key=value, one blank between them
JoinTokens(tokens) ==
    IF tokens = <<>> THEN <<>>
    ELSE tokens[1][1] \o <<"=">> \o tokens[1][2]
         \o (IF Len(tokens) > 1 THEN <<" ">> \o JoinTokens(Tail(tokens)) ELSE <<>>)

\* type=<T> msg=audit(<epoch>.<frac>:<seq>): <rest>
AuditText(w) ==
    StrTypeEq \o w.type \o <<" ">> \o StrMsgAudit \o w.epoch \o <<":">> \o w.seq
    \o <<")", ":", " ">> \o JoinTokens(w.tokens)

\* the line of TestAuditdParser_Parse with its first two tokens and its
\* pid token, and a line that gives the key uid twice
AuditLines ==
    {[type |-> StrSYSCALL, epoch |-> StrEpoch, seq |-> StrSeq456,
      tokens |-> <<<<StrArch, StrArchValue>>, <<StrSyscall, StrOpen>>,
                   <<FieldPid, StrPidValue>>>>],
     [type |-> StrUSER, epoch |-> StrEpochSmall, seq |-> StrSeq7,
      tokens |-> <<<<StrUid, StrUid0>>, <<StrUid, StrUid1000>>>>]}

LogLines ==
    {WithPidText(w) : w \in SyslogWithPid \cup JournaldWithPid}
    \cup {WithoutPidText(w) : w \in SyslogWithoutPid \cup JournaldWithoutPid}
    \cup {AuditText(w) : w \in AuditLines}
    \cup {StrContinuation, <<>>}

LogFiles ==
    {[status |-> st, lines |-> ls] :
        st \in {"ok", "readerr"}, ls \in StringsUpTo(LogLines, MaxLines)}
    \cup {[status |-> st, lines |-> <<>>] : st \in {"missing", "denied"}}

\* the state before Parse is called on a file
InitParse ==
    /\ call \in {[fn |-> "Parse", target |-> t, file |-> f, line |-> 0,
                  entries |-> <<>>, returned |-> FALSE, err |-> FALSE] :
                     t \in ParserTargets, f \in LogFiles}
    /\ pc = "call"
    /\ fs = [dirs |-> {}, files |-> <<>>]
    /\ entries = <<>>
    /\ engine = NotReturned
    /\ rules = <<>>
    /\ dirIdx = 0
    /\ warned = <<>>
    /\ contributed = <<>>
    /\ entryIdx = 1
    /\ ruleIdx = 0
    /\ matchedRules = <<>>
    /\ results = <<>>

SpecParse == InitParse /\ [][NextParse]_vars

(***************************************************************************)
(* Properties of the Log Normalizer.                                       *)
(***************************************************************************)
\* Parse has returned without error from a file with the one line given
ParsedOneLine(target, line) ==
    /\ call.fn = "Parse"
    /\ call.target = target
    /\ call.returned
    /\ ~call.err
    /\ call.file.lines = <<line>>

\* C11: for a well-formed syslog line "<mon> <day> <time> <host>
\* <prog>[<pid>]: <msg>", SyslogParser.Parse yields exactly one record whose
\* Hostname is <host>, whose Program is "<prog>[<pid>]", whose PID is <pid>
\* and whose Message is <msg>.
C11_SyslogLineYieldsItsParts ==
    \A w \in SyslogWithPid :
        ParsedOneLine("syslog", WithPidText(w)) =>
            /\ Len(call.entries) = 1
            /\ call.entries[1].Hostname = w.host
            /\ call.entries[1].Program = w.prog \o <<"[">> \o w.pid \o <<"]">>
            /\ call.entries[1].PID = w.pid
            /\ call.entries[1].Message = w.msg

\* the line has the lexical shape of the target's format
MatchesFormat(target, line) ==
    CASE target = "syslog" -> Len(SyslogRegex(line)) >= 6
      [] target = "journald" -> Len(JournaldRegex(line)) >= 6
      [] target = "auditd" -> Len(AuditdRegex(line)) >= 5

RECURSIVE JoinedUpTo(_, _, _)
\* the records of the first n lines when every non-empty line without the
\* target's shape is joined to the last record, or dropped if there is none
JoinedUpTo(target, lines, n) ==
    IF n = 0 THEN <<>>
    ELSE LET before == JoinedUpTo(target, lines, n - 1)
         IN IF lines[n] # <<>> /\ ~MatchesFormat(target, lines[n])
            THEN AppendToLast(before, lines[n])
            ELSE ParseLine(target, before, lines[n])

\* C12: in each of the three formats a non-empty line without the format's
\* shape produces no record and no error: it is appended, after one blank,
\* to the message of the last record of the file, or dropped if there is none.
C12_MismatchingLineJoinsLastRecord ==
    (call.fn = "Parse" /\ call.line >= 1 /\ ~call.err) =>
        call.entries = JoinedUpTo(call.target, call.file.lines, call.line - 1)

\* C13: every record of every parser has product "linux", the service tag
\* of its parser and the category "audit" iff the service is "auditd", else
\* "process"; its fields are a map and its matched-rule list is empty.
C13_ClassificationTripleIsPopulated ==
    call.fn = "Parse" =>
        \A i \in 1..Len(call.entries) :
            LET e == call.entries[i]
            IN /\ e.Product = "linux"
               /\ e.Service = call.target
               /\ e.Service \in ParserTargets
               /\ e.Category = (IF e.Service = "auditd" THEN "audit" ELSE "process")
               /\ e.Fields = [k \in DOMAIN e.Fields |-> e.Fields[k]]
               /\ (e.Service # "auditd" => e.Fields = MakeMap)
               /\ e.MatchedRules = <<>>

\* the auditd parser has returned two records
C13_Witness ==
    /\ call.fn = "Parse"
    /\ call.returned
    /\ call.target = "auditd"
    /\ Len(call.entries) = 2

\* the value of the last token of tokens that has the key
LastValue(tokens, key) ==
    tokens[CHOOSE i \in 1..Len(tokens) :
               /\ tokens[i][1] = key
               /\ \A j \in (i + 1)..Len(tokens) : tokens[j][1] # key][2]

\* C14: for a well-formed audit line "type=<T> msg=audit(<epoch>.<frac>:<seq>):
\* <rest>", AuditdParser.Parse yields exactly one record with Hostname
\* "localhost", Program "auditd", PID <seq>, Message <rest>, and fields that
\* hold, for every key=value token of <rest>, the value of the last token
\* with that key.
C14_AuditLineYieldsItsParts ==
    \A w \in AuditLines :
        ParsedOneLine("auditd", AuditText(w)) =>
            /\ Len(call.entries) = 1
            /\ call.entries[1].Hostname = StrLocalhost
            /\ call.entries[1].Program = StrAuditd
            /\ call.entries[1].PID = w.seq
            /\ call.entries[1].Message = JoinTokens(w.tokens)
            /\ DOMAIN call.entries[1].Fields = {w.tokens[i][1] : i \in 1..Len(w.tokens)}
            /\ \A i \in 1..Len(w.tokens) :
                   call.entries[1].Fields[w.tokens[i][1]] = LastValue(w.tokens, w.tokens[i][1])

\* Parse has returned from the audit line that gives one key twice
C14_Witness ==
    \E w \in AuditLines :
        /\ ParsedOneLine("auditd", AuditText(w))
        /\ \E i, j \in 1..Len(w.tokens) : i # j /\ w.tokens[i][1] = w.tokens[j][1]

C16_FixedNamesBeforeFieldsMap ==
    (call.fn = "getFieldValue" /\ call.returned) =>
        LET e == call.entry
            f == call.field
        IN /\ f = FieldMessage => call.result = e.Message
           /\ f = FieldHostname => call.result = e.Hostname
           /\ f = FieldProgram => call.result = e.Program
           /\ f = FieldPid => call.result = e.PID
           /\ f = FieldTimestamp => call.result = e.Timestamp
           /\ f \notin {FieldMessage, FieldHostname, FieldProgram, FieldPid, FieldTimestamp} =>
                  /\ f \in DOMAIN e.Fields => call.result = e.Fields[f]
                  /\ f \notin DOMAIN e.Fields => call.result = <<>>

\* pid was resolved on an entry whose fields map has another value under pid
C16_Witness ==
    /\ call.fn = "getFieldValue"
    /\ call.returned
    /\ call.field = FieldPid
    /\ FieldPid \in DOMAIN call.entry.Fields
    /\ call.entry.Fields[FieldPid] # call.entry.PID

\* the alternative, taken as a string criterion of its own, matches the value
AlternativeMatches(value, item) ==
    TRUE \in EvaluateField(EntryWithMessage(value), FieldMessage, StringV(ItemStr(item)))

\* C17: a list of alternatives matches a field iff at least one alternative,
\* taken as a string criterion with the modifier-prefix rules of a literal
\* string, matches the field value; an empty list never matches.
C17_ListMatchesIffSomeAlternative ==
    (call.fn = "evaluateField" /\ call.returned /\ call.criteria.k = "list") =>
        /\ call.result <=> \E i \in 1..Len(call.criteria.items) :
                               AlternativeMatches(call.value, call.criteria.items[i])
        /\ call.criteria.items = <<>> => ~call.result

\* a list of two alternatives matched by its second alternative only
C17_Witness ==
    /\ call.fn = "evaluateField"
    /\ call.returned
    /\ call.criteria.k = "list"
    /\ Len(call.criteria.items) = 2
    /\ call.result
    /\ ~AlternativeMatches(call.value, call.criteria.items[1])
    /\ AlternativeMatches(call.value, call.criteria.items[2])

(***************************************************************************)
(* Properties of the loaded rule set.                                      *)
(***************************************************************************)
NoRepeats(q) == \A i, j \in 1..Len(q) : q[i] = q[j] => i = j

\* the identifiers of the rules the rule files hold differ from file to file
UniqueIdsAcrossFiles ==
    \A p, q \in RuleFilesOnDisk :
        (/\ p # q
         /\ fs.files[p].kind = "rule"
         /\ fs.files[q].kind = "rule") => fs.files[p].rule.ID # fs.files[q].rule.ID

\* C19: after NewEngine each rule file under rulesDir, the nested linux/*
\* and external/* directories included, contributes at most one rule; the
\* identifiers of the rule set are unique whenever they are unique across
\* the files, and Evaluate then returns each matching identifier at most once.
C19_EachRuleFileCountsOnce ==
    (engine.returned /\ engine.nonNil) =>
        /\ Len(rules) <= Cardinality(RuleFilesOnDisk)
        /\ UniqueIdsAcrossFiles =>
               /\ NoRepeats([i \in 1..Len(rules) |-> rules[i].ID])
               /\ EvaluateDone => NoRepeats(matchedRules)

(***************************************************************************)
(* The Collection Analyzer: CollectionAnalyzer.AnalyzeCollection and       *)
(* analyzeLogFile (internal/collection/analyzer.go).  The call record      *)
(* holds collection.LogFiles (each with its path, its type and the file    *)
(* at the path), the position of the loop and the CollectionResult.        *)
(***************************************************************************)
MaxLogFiles == 2     \* most log files of a collection

RECURSIVE EvaluateFrom(_, _, _)
\* Engine.Evaluate from the i-th rule on: the lists of identifiers the call
\* can return
EvaluateFrom(entry, ruleSet, i) ==
    IF i > Len(ruleSet) THEN {<<>>}
    ELSE {(IF matched THEN <<ruleSet[i].ID>> ELSE <<>>) \o rest :
              matched \in MatchesRule(entry, ruleSet[i]),
              rest \in EvaluateFrom(entry, ruleSet, i + 1)}

RECURSIVE MatchingEntries(_, _, _)
\* the loop of analyzeLogFile over the parsed entries, from the i-th on: the
\* lists of entries with matches, each with its matches assigned
MatchingEntries(parsed, ruleSet, i) ==
    IF i > Len(parsed) THEN {<<>>}
    ELSE {(IF Len(matches) > 0
           THEN <<[parsed[i] EXCEPT !.MatchedRules = matches]>> ELSE <<>>) \o rest :
              matches \in EvaluateFrom(parsed[i], ruleSet, 1),
              rest \in MatchingEntries(parsed, ruleSet, i + 1)}

\* CollectionAnalyzer.analyzeLogFile: the results the call can return; Error
\* is "nil", "create" (no parser for the type) or "parse" (Parse failed)
AnalyzeLogFile(logFile, ruleSet) ==
    IF logFile.Type \notin ParserTargets
    THEN {[LogFile |-> logFile.Path, LogType |-> logFile.Type, Entries |-> <<>>,
           MatchCount |-> 0, Error |-> "create"]}
    ELSE LET parse == Parse(logFile.Type, logFile.file)
         IN IF parse.err
            THEN {[LogFile |-> logFile.Path, LogType |-> logFile.Type,
                   Entries |-> <<>>, MatchCount |-> 0, Error |-> "parse"]}
            ELSE {[LogFile |-> logFile.Path, LogType |-> logFile.Type,
                   Entries |-> matching, MatchCount |-> Len(matching),
                   Error |-> "nil"] :
                     matching \in MatchingEntries(parse.entries, ruleSet, 1)}

Tally_FailedNotCounted(result, analysisResult) ==
    LET appended == [result EXCEPT !.Results = Append(@, analysisResult)]
    IN IF analysisResult.Error # "nil"
       THEN appended
       ELSE [appended EXCEPT !.ProcessedFiles = @ + 1,
                             !.TotalMatches = @ + analysisResult.MatchCount]

\* the body of AnalyzeCollection's loop after the call of analyzeLogFile
Tally(result, analysisResult) ==
    LET appended == [result EXCEPT !.Results = Append(@, analysisResult)]
    IN IF analysisResult.Error # "nil"
       THEN [appended EXCEPT !.FailedFiles = @ + 1]
       ELSE [appended EXCEPT !.ProcessedFiles = @ + 1,
                             !.TotalMatches = @ + analysisResult.MatchCount]

\* AnalyzeCollection up to its loop: the result with TotalFiles set
AnalyzeCollectionCall ==
    /\ call.fn = "AnalyzeCollection"
    /\ ~call.returned
    /\ call.idx = 0
    /\ call' = [call EXCEPT !.idx = 1,
                            !.result = [Results |-> <<>>, TotalMatches |-> 0,
                                        TotalFiles |-> Len(call.LogFiles),
                                        ProcessedFiles |-> 0, FailedFiles |-> 0]]
    /\ UNCHANGED program

\* one iteration of AnalyzeCollection's loop over collection.LogFiles
AnalyzeLogFileStep ==
    /\ call.fn = "AnalyzeCollection"
    /\ ~call.returned
    /\ call.idx >= 1
    /\ call.idx <= Len(call.LogFiles)
    /\ \E analysisResult \in AnalyzeLogFile(call.LogFiles[call.idx], rules) :
           call' = [call EXCEPT !.result = Tally(@, analysisResult), !.idx = @ + 1]
    /\ UNCHANGED program

\* AnalyzeCollection returns (result, nil)
AnalyzeCollectionReturn ==
    /\ call.fn = "AnalyzeCollection"
    /\ ~call.returned
    /\ call.idx > Len(call.LogFiles)
    /\ call' = [call EXCEPT !.returned = TRUE]
    /\ UNCHANGED program

NextAnalyze ==
    \/ AnalyzeCollectionCall
    \/ AnalyzeLogFileStep
    \/ AnalyzeCollectionReturn

\* a rule that fires on syslog records whose message contains "failed",
\* and one that fires on audit records naming the open call
RuleFailedSyslog ==
    Rule("failed-syslog", "Failed", SyslogSource,
         Detection(MessageHas(StrFailed), StrSelection))
RuleAuditOpen ==
    Rule("audit-open", "Open", AuditdOnly,
         Detection(MapV(StrSyscall :> StringV(StrOpen)), StrSelection))

\* the candidate log files of a collection
CollectionFiles ==
    LET sshd == WithPidText(LineParts(StrSyslogStamp, StrSshd, StrPid1234,
                                      StrFailedPasswordForRoot))
        sudo == WithoutPidText(LineParts(StrSyslogStamp, StrSudo, <<>>, StrSudoMessage))
        audit == AuditText(CHOOSE w \in AuditLines : w.type = StrSYSCALL)
    IN {[Path |-> "auth.log", Type |-> "syslog",
         file |-> [status |-> "ok", lines |-> <<sshd, sudo, sshd>>]],
        [Path |-> "messages", Type |-> "syslog",
         file |-> [status |-> "ok", lines |-> <<sudo>>]],
        [Path |-> "audit.log", Type |-> "auditd",
         file |-> [status |-> "ok", lines |-> <<audit>>]],
        [Path |-> "gone.log", Type |-> "syslog",
         file |-> [status |-> "missing", lines |-> <<>>]],
        [Path |-> "secret.log", Type |-> "journald",
         file |-> [status |-> "denied", lines |-> <<>>]],
        [Path |-> "dmesg", Type |-> "kernel",
         file |-> [status |-> "ok", lines |-> <<sudo>>]]}

\* the state before AnalyzeCollection is called, the rules loaded
InitAnalyze ==
    /\ call \in {[fn |-> "AnalyzeCollection", LogFiles |-> files, idx |-> 0,
                  result |-> [Results |-> <<>>, TotalMatches |-> 0, TotalFiles |-> 0,
                              ProcessedFiles |-> 0, FailedFiles |-> 0],
                  returned |-> FALSE, err |-> FALSE] :
                     files \in StringsUpTo(CollectionFiles, MaxLogFiles)}
    /\ pc = "call"
    /\ fs = [dirs |-> {}, files |-> <<>>]
    /\ entries = <<>>
    /\ engine = [returned |-> TRUE, nonNil |-> TRUE, err |-> FALSE]
    /\ rules \in {<<RuleFailedSyslog, RuleAuditOpen>>, <<RuleFailedSyslog>>, <<>>}
    /\ dirIdx = 0
    /\ warned = <<>>
    /\ contributed = <<>>
    /\ entryIdx = 1
    /\ ruleIdx = 0
    /\ matchedRules = <<>>
    /\ results = <<>>

SpecAnalyze == InitAnalyze /\ [][NextAnalyze]_vars

RECURSIVE SumMatchCounts(_, _)
\* the sum of MatchCount over the first n results that carry no error
SumMatchCounts(analysisResults, n) ==
    IF n = 0 THEN 0
    ELSE SumMatchCounts(analysisResults, n - 1)
         + (IF analysisResults[n].Error = "nil" THEN analysisResults[n].MatchCount ELSE 0)

\* no parser exists for the file's type, or the file cannot be opened or read
FileFails(logFile) ==
    \/ logFile.Type \notin {"syslog", "journald", "auditd"}
    \/ logFile.file.status # "ok"

\* C18: in AnalyzeCollection an error of parser creation or file access on
\* one log file is recorded in that file's result only and does not stop the
\* files after it: on return there is one result per file, in collection
\* order, ProcessedFiles + FailedFiles = TotalFiles = the number of results,
\* and TotalMatches is the sum of MatchCount over the results without error.
C18_FileErrorsStayLocal ==
    (call.fn = "AnalyzeCollection" /\ call.returned) =>
        LET r == call.result
        IN /\ ~call.err
           /\ Len(r.Results) = Len(call.LogFiles)
           /\ \A i \in 1..Len(r.Results) :
                  /\ r.Results[i].LogFile = call.LogFiles[i].Path
                  /\ r.Results[i].Error # "nil" <=> FileFails(call.LogFiles[i])
           /\ r.ProcessedFiles + r.FailedFiles = r.TotalFiles
           /\ r.TotalFiles = Len(r.Results)
           /\ r.FailedFiles = Cardinality({i \in 1..Len(r.Results) : r.Results[i].Error # "nil"})
           /\ r.TotalMatches = SumMatchCounts(r.Results, Len(r.Results))

\* a file that fails was followed by a file that was analyzed with matches
C18_Witness ==
    /\ call.fn = "AnalyzeCollection"
    /\ call.returned
    /\ Len(call.result.Results) = 2
    /\ call.result.Results[1].Error # "nil"
    /\ call.result.Results[2].Error = "nil"
    /\ call.result.Results[2].MatchCount = 2
    /\ call.result.TotalMatches = 2

(***************************************************************************)
(* The rule sources: RuleManager (internal/rules/engine.go) and the rules  *)
(* commands of the command line (internal/cli/args.go).  In this           *)
(* specification fs is the file sources.yml of the rules directory:        *)
(* whether it exists, and the sources it lists (yaml.Marshal and           *)
(* yaml.Unmarshal carry the five fields of each source unchanged); call    *)
(* is the last command run, the error it returned and the downloads it     *)
(* started.  A download itself is the work of GitHubDownloader and the     *)
(* network: it succeeds or fails.                                          *)
(***************************************************************************)
MaxSources == 3      \* most sources sources.yml lists

StrChopChopGo == <<"C","h","o","p","C","h","o","p","G","o">>
StrSigmaHQ == <<"S","i","g","m","a","H","Q">>
StrMyOrgRules == <<"M","y","O","r","g","R","u","l","e","s">>
StrLowerSigmahq == <<"s","i","g","m","a","h","q">>
StrLowerChopchopgo == <<"c","h","o","p","c","h","o","p","g","o">>

RuleSource(name, url, branch, enabled) ==
    [Name |-> name, URL |-> url, Branch |-> branch, Enabled |-> enabled]

\* the configuration createDefaultConfig writes
DefaultSources ==
    <<RuleSource(StrChopChopGo, "https://github.com/M00NLIG7/ChopChopGo", "master", TRUE),
      RuleSource(StrSigmaHQ, "https://github.com/SigmaHQ/sigma", "master", TRUE)>>

NoConfig == [exists |-> FALSE, Sources |-> <<>>]

\* RuleManager.Initialize: the directories are made, and the default
\* configuration is written unless sources.yml exists
Initialize(config) ==
    IF config.exists THEN config ELSE [exists |-> TRUE, Sources |-> DefaultSources]

\* a plausible slip: the source is appended without the look for its name
AddSource_NoCheck(config, source) ==
    IF ~config.exists THEN [config |-> config, err |-> "load"]
    ELSE [config |-> [config EXCEPT !.Sources = Append(@, source)], err |-> "nil"]

\* RuleManager.AddSource: [config, err]
AddSource(config, source) ==
    IF ~config.exists THEN [config |-> config, err |-> "load"]
    ELSE IF \E i \in 1..Len(config.Sources) : config.Sources[i].Name = source.Name
    THEN [config |-> config, err |-> "exists"]
    ELSE [config |-> [config EXCEPT !.Sources = Append(@, source)], err |-> "nil"]

\* RuleManager.RemoveSource: [config, err]
RemoveSource(config, sourceName) ==
    IF ~config.exists THEN [config |-> config, err |-> "load"]
    ELSE [config |-> [config EXCEPT !.Sources = SelectSeq(@, LAMBDA s : s.Name # sourceName)],
          err |-> "nil"]

\* RuleManager.toggleSource: [config, err]; the first source of the name is set
ToggleSource(config, sourceName, enabled) ==
    IF ~config.exists THEN [config |-> config, err |-> "load"]
    ELSE LET at == {i \in 1..Len(config.Sources) : config.Sources[i].Name = sourceName}
         IN IF at = {} THEN [config |-> config, err |-> "not found"]
            ELSE LET i == CHOOSE x \in at : \A y \in at : x <= y
                 IN [config |-> [config EXCEPT !.Sources[i].Enabled = enabled],
                     err |-> "nil"]

\* RuleManager.downloadSource up to the call of the downloader: the rule
\* paths it would fetch, or "unsupported"
DownloadSource(source) ==
    CASE ToLower(source.Name) = StrLowerChopchopgo -> "chopchopgo"
      [] ToLower(source.Name) = StrLowerSigmahq -> "sigmahq"
      [] OTHER -> "unsupported"

\* RuleManager.DownloadRules up to the call of the downloader: [err, fetch],
\* fetch being the download that is started, if any
DownloadRules(config, sourceName) ==
    LET at == {i \in 1..Len(config.Sources) : config.Sources[i].Name = sourceName}
        source == config.Sources[CHOOSE x \in at : \A y \in at : x <= y]
    IN IF ~config.exists THEN [err |-> "load", fetch |-> <<>>]
       ELSE IF at = {} THEN [err |-> "not found", fetch |-> <<>>]
       ELSE IF ~source.Enabled THEN [err |-> "disabled", fetch |-> <<>>]
       ELSE IF DownloadSource(source) = "unsupported"
       THEN [err |-> "unsupported", fetch |-> <<>>]
       ELSE [err |-> "nil",
             fetch |-> <<[url |-> source.URL, branch |-> source.Branch,
                          rulePaths |-> DownloadSource(source)]>>]

Command(cmd, name, err, downloads) ==
    [fn |-> "rules", cmd |-> cmd, name |-> name, err |-> err, downloads |-> downloads]

\* the names and the repository the commands are given
SourceNames == {StrChopChopGo, StrSigmaHQ, StrMyOrgRules, StrLowerSigmahq}
CustomURL == "https://github.com/myorg/sigma-rules"

\* the variables the rules commands do not use
unused == <<pc, engine, rules, dirIdx, warned, contributed, entries, entryIdx,
            ruleIdx, matchedRules, results>>

\* RulesAddCmd.Run
RulesAdd ==
    \E name \in SourceNames :
        LET added == AddSource(Initialize(fs),
                               RuleSource(name, CustomURL, "main", TRUE))
        IN /\ Len(fs.Sources) < MaxSources
           /\ fs' = added.config
           /\ call' = Command("add", name, added.err, <<>>)
           /\ UNCHANGED unused

\* RulesRemoveCmd.Run
RulesRemove ==
    \E name \in SourceNames :
        LET removed == RemoveSource(fs, name)
        IN /\ fs' = removed.config
           /\ call' = Command("remove", name, removed.err, <<>>)
           /\ UNCHANGED unused

\* RulesEnableCmd.Run
RulesEnable ==
    \E name \in SourceNames :
        LET toggled == ToggleSource(fs, name, TRUE)
        IN /\ fs' = toggled.config
           /\ call' = Command("enable", name, toggled.err, <<>>)
           /\ UNCHANGED unused

\* RulesDisableCmd.Run
RulesDisable ==
    \E name \in SourceNames :
        LET toggled == ToggleSource(fs, name, FALSE)
        IN /\ fs' = toggled.config
           /\ call' = Command("disable", name, toggled.err, <<>>)
           /\ UNCHANGED unused

\* RulesDownloadCmd.Run with --source
RulesDownload ==
    \E name \in SourceNames, fetched \in BOOLEAN :
        LET download == DownloadRules(Initialize(fs), name)
        IN /\ fs' = Initialize(fs)
           /\ call' = Command("download", name,
                              IF download.err = "nil" /\ ~fetched THEN "download"
                              ELSE download.err,
                              download.fetch)
           /\ UNCHANGED unused

RECURSIVE FetchesOfAll(_, _)
\* RulesDownloadCmd.Run with --all: the downloads started for the enabled
\* sources, from the i-th source on
FetchesOfAll(config, i) ==
    IF i > Len(config.Sources) THEN <<>>
    ELSE (IF config.Sources[i].Enabled
          THEN DownloadRules(config, config.Sources[i].Name).fetch ELSE <<>>)
         \o FetchesOfAll(config, i + 1)

\* RulesDownloadCmd.Run with --all: a failing source is a warning only
RulesDownloadAll ==
    /\ fs' = Initialize(fs)
    /\ call' = Command("download --all", <<>>, "nil", FetchesOfAll(Initialize(fs), 1))
    /\ UNCHANGED unused

NextSources ==
    \/ RulesAdd
    \/ RulesRemove
    \/ RulesEnable
    \/ RulesDisable
    \/ RulesDownload
    \/ RulesDownloadAll

\* no command has run; sources.yml may not exist yet
InitSources ==
    /\ fs \in {NoConfig, [exists |-> TRUE, Sources |-> DefaultSources]}
    /\ call = Command("none", <<>>, "nil", <<>>)
    /\ pc = "call"
    /\ entries = <<>>
    /\ engine = NotReturned
    /\ rules = <<>>
    /\ dirIdx = 0
    /\ warned = <<>>
    /\ contributed = <<>>
    /\ entryIdx = 1
    /\ ruleIdx = 0
    /\ matchedRules = <<>>
    /\ results = <<>>

SpecSources == InitSources /\ [][NextSources]_vars

\* the name is not one of the two pre-configured sources
IsCustomName(name) == name \notin {StrChopChopGo, StrSigmaHQ}

\* C20: after a custom rule source (a name other than ChopChopGo and
\* SigmaHQ) has been added, it is listed as enabled, and DownloadRules for
\* that name starts a download from the source's URL: it does not fail
\* because the source is unknown, disabled or unsupported.
C20_CustomSourceCanBeDownloaded ==
    /\ (call.cmd = "add" /\ call.err = "nil" /\ IsCustomName(call.name)) =>
           \E i \in 1..Len(fs.Sources) :
               fs.Sources[i].Name = call.name /\ fs.Sources[i].Enabled
    /\ \A i \in 1..Len(fs.Sources) :
           (/\ call.cmd = "download"
            /\ call.name = fs.Sources[i].Name
            /\ IsCustomName(call.name)
            /\ fs.Sources[i].Enabled) =>
               /\ call.err \notin {"not found", "disabled", "unsupported"}
               /\ Len(call.downloads) = 1
               /\ call.downloads[1].url = fs.Sources[i].URL

ConditionReturned == call.fn = "evaluateCondition" /\ call.returned

\* the condition as the evaluator reads it: "selection" when empty, folded to lower case
ReadCondition == ToLower(IF call.condition = <<>> THEN StrSelection ELSE call.condition)

\* the names joined by sep in the condition read, without surrounding white space
RECURSIVE PartsFrom(_, _, _)
PartsFrom(c, sep, from) ==
    LET rest == SubSeq(c, from, Len(c))
        at == Index(rest, sep)
    IN IF at = 0 THEN {TrimSpace(rest)}
       ELSE {TrimSpace(SubSeq(rest, 1, at - 1))} \cup PartsFrom(c, sep, from + at - 1 + Len(sep))

FieldReturned == call.fn = "evaluateField" /\ call.returned

\* the literal prefix token of a modifier name
PrefixOf(modifier) ==
    CASE modifier = "contains" -> PrefixContains
      [] modifier = "startswith" -> PrefixStartswith
      [] modifier = "endswith" -> PrefixEndswith
      [] modifier = "re" -> PrefixRe

\* the keys of a nested mapping that name a valid modifier and carry a string
UsableKeys(modifiers) ==
    {m \in DOMAIN modifiers : m \in ModifierNames /\ modifiers[m].k = "string"}

\* C23: a nested mapping with exactly one key M among contains, startswith,
\* endswith, re and a string V gives the field the result the literal criterion
\* "|M|V" gives on the same value; a mapping in which no valid modifier carries
\* a string gives false
C23_SingleModifierIsThePrefixForm ==
    (FieldReturned /\ call.criteria.k = "map") =>
        LET modifiers == call.criteria.m
        IN /\ (Cardinality(DOMAIN modifiers) = 1 /\ UsableKeys(modifiers) # {}) =>
                  \A m \in DOMAIN modifiers :
                      EvaluateField(EntryWithMessage(call.value), FieldMessage,
                                    StringV(PrefixOf(m) \o modifiers[m].s)) = {call.result}
           /\ UsableKeys(modifiers) = {} => ~call.result

\* {startswith: "A"} on the value "ab": true, as "|startswith|A" is
C23_Witness ==
    /\ FieldReturned
    /\ call.criteria = MapV("startswith" :> StringV(<<"A">>))
    /\ call.value = <<"a", "b">>
    /\ call.result

\* the condition of the call is a single name: not "selection" (which is also what
\* an empty condition means), and with neither " and " nor " or " in it
SingleNameCondition ==
    /\ call.condition # <<>>
    /\ ToLower(call.condition) # StrSelection
    /\ ~Contains(call.condition, SepAnd)
    /\ ~Contains(call.condition, SepOr)

\* C24: a condition that is a single name N holds iff the result map has the value
\* true under the key N, whatever the letter case of N: a name written with
\* upper-case letters in both the detection body and the condition is found
C24_SingleNameFoundInAnyCase ==
    (ConditionReturned /\ SingleNameCondition) =>
        (call.result <=> (call.condition \in DOMAIN call.matches
                             /\ call.matches[call.condition]))

C26_ResultsAreTheMatchingRecordsInOrder ==
    (engine.returned /\ pc \in {"ready", "done"}) =>
        results \in MatchingEntries(SubSeq(entries, 1, entryIdx - 1), rules, 1)

\* two records parsed, the first without a match, the second returned with its match
C26_Witness ==
    /\ pc = "done"
    /\ Len(entries) = 2
    /\ Len(results) = 1
    /\ results[1] = [entries[2] EXCEPT !.MatchedRules = results[1].MatchedRules]
    /\ results[1] # [entries[1] EXCEPT !.MatchedRules = results[1].MatchedRules]
    /\ Len(results[1].MatchedRules) >= 1

(***************************************************************************)
(* The analyze command: AnalyzeCmd.Run with config.LoadConfig.  The disk   *)
(* in fs holds the home directory (home: "ok", or the reason               *)
(* GetConfigPath fails), whether ~/.hayanix exists, the saved              *)
(* configuration file ~/.hayanix/hayanix.json (absent, unreadable,         *)
(* malformed, or saved with the decoded Config) and the state of the       *)
(* rules directories; call holds the command line, the error returned and  *)
(* the engine created.                                                     *)
(***************************************************************************)
Config(logFile, logType, rulesDir, outputFormat) ==
    [LogFile |-> logFile, LogType |-> logType, RulesDir |-> rulesDir,
     OutputFormat |-> outputFormat]

\* the configuration LoadConfig returns when the file does not exist
DefaultConfig == Config("/var/log/messages", "syslog", "./rules", "table")

ZeroConfig == Config("", "", "", "")

\* config.GetConfigPath: the error, and whether ~/.hayanix exists afterwards
GetConfigPath(disk) ==
    IF disk.home = "no home" THEN [err |-> "home", configDir |-> disk.configDir]
    ELSE IF ~disk.configDir /\ disk.home = "mkdir fails"
    THEN [err |-> "mkdir", configDir |-> FALSE]
    ELSE [err |-> "nil", configDir |-> TRUE]

\* config.LoadConfig
LoadConfig(disk) ==
    LET path == GetConfigPath(disk)
    IN IF path.err # "nil" THEN [cfg |-> ZeroConfig, err |-> path.err]
       ELSE IF disk.config.state = "absent"
       THEN \* return default config if file doesn't exist
            [cfg |-> DefaultConfig, err |-> "nil"]
       ELSE IF disk.config.state = "unreadable" THEN [cfg |-> ZeroConfig, err |-> "read"]
       ELSE IF disk.config.state = "malformed" THEN [cfg |-> ZeroConfig, err |-> "parse"]
       ELSE [cfg |-> disk.config.cfg, err |-> "nil"]

ValidTargets == {"syslog", "journald", "auditd"}
ValidOutputs == {"table", "csv", "json"}

NoEngine == [created |-> FALSE, target |-> "", rules |-> "", file |-> "", output |-> ""]

\* engine.New(target, rulesDir, file, output, false)
New(target, rulesDir, file, output) ==
    [created |-> TRUE, target |-> target, rules |-> rulesDir, file |-> file,
     output |-> output]

\* the state of a directory on the disk
DirState(disk, dir) == IF dir \in DOMAIN disk.dirs THEN disk.dirs[dir] ELSE "missing"

\* AnalyzeCmd.Run up to the call of eng.Run: the error returned before it, or
\* the engine created
AnalyzeCmdRun(ac, disk) ==
    LET loaded == LoadConfig(disk)
        cfg == loaded.cfg
        target == IF ac.UseConfig THEN cfg.LogType ELSE ac.Target
        rulesDir == IF ac.UseConfig THEN cfg.RulesDir ELSE ac.Rules
        file == IF ac.UseConfig THEN cfg.LogFile ELSE ac.File
        output == IF ac.UseConfig THEN cfg.OutputFormat ELSE ac.Output
    IN IF ac.UseConfig /\ loaded.err # "nil"
       THEN [err |-> "failed to load saved configuration", eng |-> NoEngine]
       ELSE IF ac.UseConfig /\ cfg.LogFile = ""
       THEN [err |-> "no saved configuration found", eng |-> NoEngine]
       ELSE IF target \notin ValidTargets
       THEN [err |-> "invalid target", eng |-> NoEngine]
       ELSE IF DirState(disk, rulesDir) = "missing"
       THEN [err |-> "rules directory does not exist", eng |-> NoEngine]
       ELSE IF DirState(disk, rulesDir) = "unreadable"
       THEN [err |-> "cannot read rules directory", eng |-> NoEngine]
       ELSE IF output \notin ValidOutputs
       THEN [err |-> "invalid output format", eng |-> NoEngine]
       ELSE [err |-> "nil", eng |-> New(target, rulesDir, file, output)]

\* the errors Engine.Run of internal/engine can return, nil among them
EngineRunErrors ==
    {"nil", "failed to load rules", "failed to create parser", "failed to process logs",
     "write"}

\* the variables the analyze command does not use
outside == <<engine, rules, dirIdx, warned, contributed, entries, entryIdx,
             ruleIdx, matchedRules, results>>

\* AnalyzeCmd.Run from its start to its return or to the call of eng.Run
AnalyzeCmdCall ==
    /\ pc = "call"
    /\ LET ran == AnalyzeCmdRun(call.ac, fs)
       IN /\ call' = [call EXCEPT !.err = ran.err, !.eng = ran.eng,
                                  !.returned = ~ran.eng.created]
          /\ pc' = IF ran.eng.created THEN "engine" ELSE "done"
    /\ fs' = [fs EXCEPT !.configDir = IF call.ac.UseConfig THEN GetConfigPath(fs).configDir
                                      ELSE fs.configDir]
    /\ UNCHANGED outside

\* return eng.Run(): the analysis runs and its error is the command's
EngineRun ==
    /\ pc = "engine"
    /\ \E err \in EngineRunErrors :
           call' = [call EXCEPT !.started = TRUE, !.err = err, !.returned = TRUE]
    /\ pc' = "done"
    /\ UNCHANGED <<fs, outside>>

NextAnalyzeCmd ==
    \/ AnalyzeCmdCall
    \/ EngineRun

\* the command lines, with and without values kong's enum would refuse
AnalyzeCmds ==
    [UseConfig : BOOLEAN, Target : {"syslog", "auditd", "evtx"},
     Rules : {"./rules", "./missing"}, File : {"", "/var/log/auth.log"},
     Output : {"table", "xml"}]

SavedConfigs ==
    {Config(f, t, d, o) : f \in {"", "/var/log/auth.log"}, t \in {"journald", ""},
                          d \in {"./rules", "./missing"}, o \in {"json", ""}}

ConfigFiles ==
    {[state |-> s, cfg |-> ZeroConfig] : s \in {"absent", "unreadable", "malformed"}}
    \cup {[state |-> "saved", cfg |-> c] : c \in SavedConfigs}

InitAnalyzeCmd ==
    /\ fs \in {d \in [home : {"ok", "no home", "mkdir fails"}, configDir : BOOLEAN,
                      config : ConfigFiles,
                      dirs : [{"./rules"} -> {"ok", "missing", "unreadable"}]] :
                  d.configDir \/ d.config.state = "absent"}
    /\ call \in [fn : {"analyze"}, ac : AnalyzeCmds, err : {"nil"}, eng : {NoEngine},
                 started : {FALSE}, returned : {FALSE}]
    /\ pc = "call"
    /\ entries = <<>>
    /\ engine = NotReturned
    /\ rules = <<>>
    /\ dirIdx = 0
    /\ warned = <<>>
    /\ contributed = <<>>
    /\ entryIdx = 1
    /\ ruleIdx = 0
    /\ matchedRules = <<>>
    /\ results = <<>>

SpecAnalyzeCmd == InitAnalyzeCmd /\ [][NextAnalyzeCmd]_vars

\* C27: AnalyzeCmd.Run with UseConfig set, when no configuration file has ever
\* been saved, returns the error "no saved configuration found" and neither
\* creates an engine nor starts an analysis
C27_NoSavedConfigurationIsAnError ==
    (call.fn = "analyze" /\ pc # "call" /\ call.ac.UseConfig
        /\ fs.config.state = "absent" /\ fs.home = "ok") =>
        /\ call.err = "no saved configuration found"
        /\ ~call.eng.created
        /\ ~call.started

\* the names of the sources in the stored configuration, in order
StoredNames == [i \in 1..Len(fs.Sources) |-> fs.Sources[i].Name]

\* the command just run was given a name the stored configuration had (or lacked)
NameWasPresent == \E i \in 1..Len(fs.Sources) : fs.Sources[i].Name = call'.name

\* C28: starting from the default source configuration, after any sequence of
\* AddSource, RemoveSource, EnableSource and DisableSource no two stored sources
\* share a name; AddSource of a name already present, and Enable or Disable of a
\* name that is absent, return an error and leave the stored configuration as it was
C28_SourceNamesStayUnique ==
    /\ [](fs.exists => NoRepeats(StoredNames))
    /\ [][(fs.exists /\ call'.cmd = "add" /\ NameWasPresent) =>
              (call'.err = "exists" /\ fs' = fs)]_vars
    /\ [][(fs.exists /\ call'.cmd \in {"enable", "disable"} /\ ~NameWasPresent) =>
              (call'.err = "not found" /\ fs' = fs)]_vars

\* a custom source had been added and a default one disabled, when the add of
\* a name that is present was refused
C28_Witness ==
    /\ fs.exists
    /\ \E i \in 1..Len(fs.Sources) : IsCustomName(fs.Sources[i].Name)
    /\ \E i \in 1..Len(fs.Sources) : ~fs.Sources[i].Enabled
    /\ call.cmd = "add"
    /\ call.err = "exists"

(***************************************************************************)
(* The Collector: Collector.detectLogType.  The function ranges over two   *)
(* Go maps from log type to patterns and returns at the first pattern      *)
(* found in the name; the order of the types is the map's, which Go        *)
(* leaves unspecified, so the operator yields the set of types a call can  *)
(* return ("" for a file that is no log).  Paths are clean, as             *)
(* filepath.Walk hands them over.                                          *)
(***************************************************************************)
\* the position of the last c in s, 0 if there is none
LastIndexOf(s, c) ==
    LET at == {i \in 1..Len(s) : s[i] = c}
    IN IF at = {} THEN 0 ELSE CHOOSE i \in at : \A j \in at : j <= i

\* filepath.Base of a clean path
Base(path) ==
    IF path = <<>> THEN <<".">>
    ELSE IF path = <<"/">> THEN path
    ELSE SubSeq(path, LastIndexOf(path, "/") + 1, Len(path))

\* filepath.Dir of a clean path
Dir(path) ==
    LET slash == LastIndexOf(path, "/")
    IN IF slash = 0 THEN <<".">>
       ELSE IF slash = 1 THEN <<"/">>
       ELSE SubSeq(path, 1, slash - 1)

\* filepath.Ext: from the last dot of the last element on
Ext(path) ==
    LET dot == LastIndexOf(path, ".")
    IN IF dot > LastIndexOf(path, "/") THEN SubSeq(path, dot, Len(path)) ELSE <<>>

SkipExts ==
    {<<".","e","x","e">>, <<".","b","i","n">>, <<".","s","o">>, <<".","d","l","l">>,
     <<".","z","i","p">>, <<".","t","a","r">>, <<".","g","z">>, <<".","b","z","2">>,
     <<".","p","d","f">>, <<".","d","o","c">>, <<".","d","o","c","x">>, <<".","x","l","s">>,
     <<".","j","p","g">>, <<".","p","n","g">>, <<".","g","i","f">>, <<".","m","p","4">>}

LogTypes == {"syslog", "journald", "auditd"}

LogPatterns ==
    [logType \in LogTypes |->
        CASE logType = "syslog" ->
               {<<"m","e","s","s","a","g","e","s">>, <<"s","y","s","l","o","g">>,
                <<"a","u","t","h">>, <<"a","u","t","h",".","l","o","g">>,
                <<"s","e","c","u","r","e">>, <<"m","a","i","l">>,
                <<"m","a","i","l",".","l","o","g">>, <<"d","a","e","m","o","n">>,
                <<"d","a","e","m","o","n",".","l","o","g">>, <<"k","e","r","n">>,
                <<"k","e","r","n",".","l","o","g">>, <<"u","s","e","r">>,
                <<"u","s","e","r",".","l","o","g">>, <<"l","o","c","a","l","0">>,
                <<"l","o","c","a","l","1">>, <<"l","o","c","a","l","2">>,
                <<"l","o","c","a","l","3">>, <<"l","o","c","a","l","4">>,
                <<"l","o","c","a","l","5">>, <<"l","o","c","a","l","6">>,
                <<"l","o","c","a","l","7">>}
          [] logType = "journald" ->
               {<<"j","o","u","r","n","a","l">>,
                <<"s","y","s","t","e","m",".","j","o","u","r","n","a","l">>,
                <<"u","s","e","r",".","j","o","u","r","n","a","l">>}
          [] logType = "auditd" ->
               {<<"a","u","d","i","t",".","l","o","g">>, <<"a","u","d","i","t">>,
                <<"a","u","d","i","t","d">>}]

DirPatterns ==
    [logType \in LogTypes |->
        CASE logType = "syslog" -> {<<"l","o","g">>, <<"l","o","g","s">>,
                                    <<"v","a","r","/","l","o","g">>}
          [] logType = "journald" -> {<<"j","o","u","r","n","a","l">>, <<"s","y","s","t","e","m","d">>}
          [] logType = "auditd" -> {<<"a","u","d","i","t">>, <<"a","u","d","i","t","d">>}]

\* the types of which some pattern is found in the name
TypesFound(patterns, name) ==
    {logType \in DOMAIN patterns : \E pattern \in patterns[logType] : Contains(name, pattern)}

\* the set of results a call of detectLogType can return
DetectLogType(path, size) ==
    LET ext == ToLower(Ext(path))
        basename == ToLower(Base(path))
        dirname == ToLower(Dir(path))
    IN IF size < 100 THEN {""}
       ELSE IF ext \in SkipExts THEN {""}
       ELSE IF TypesFound(LogPatterns, basename) # {} THEN TypesFound(LogPatterns, basename)
       ELSE IF TypesFound(DirPatterns, dirname) # {} THEN TypesFound(DirPatterns, dirname)
       ELSE IF ext = <<".","l","o","g">> \/ ext = <<>> THEN {"syslog"}
       ELSE {""}

\* the files the collector comes upon: directories and base names that hold
\* patterns of no type, of one type and of two, and sizes around the threshold
WalkedDirs ==
    {<<"/","v","a","r","/","l","o","g">>,
     <<"/","v","a","r","/","l","o","g","/","a","u","d","i","t">>,
     <<"/","v","a","r","/","l","o","g","/","j","o","u","r","n","a","l">>,
     <<"/","s","r","v","/","s","y","s","t","e","m","d">>, <<"/","d","a","t","a">>,
     <<"/","D","a","t","a","/","A","u","d","i","t">>}

WalkedNames ==
    {<<"m","e","s","s","a","g","e","s">>, <<"a","u","d","i","t",".","l","o","g">>,
     <<"u","s","e","r",".","j","o","u","r","n","a","l">>, <<"e","v","e","n","t","s">>,
     <<"e","v","e","n","t","s",".","t","x","t">>, <<"e","v","e","n","t","s",".","1">>,
     <<"a","p","p",".","l","o","g">>, <<"d","u","m","p",".","g","z">>,
     <<"A","U","T","H",".","L","O","G">>, <<"n","o","t","e","s">>}

WalkedSizes == {0, 99, 100, 4096}

InitDetect ==
    /\ call \in [fn : {"detectLogType"},
                 path : {dir \o <<"/">> \o name : dir \in WalkedDirs, name \in WalkedNames}
                        \cup WalkedNames,
                 size : WalkedSizes, returned : {FALSE}, result : {""}]
    /\ pc = "call"
    /\ fs = [dirs |-> {}, files |-> <<>>]
    /\ entries = <<>>
    /\ engine = NotReturned
    /\ rules = <<>>
    /\ dirIdx = 0
    /\ warned = <<>>
    /\ contributed = <<>>
    /\ entryIdx = 1
    /\ ruleIdx = 0
    /\ matchedRules = <<>>
    /\ results = <<>>

\* c.detectLogType(path, info)
DetectLogTypeCall ==
    /\ pc = "call"
    /\ call.fn = "detectLogType"
    /\ ~call.returned
    /\ \E logType \in DetectLogType(call.path, call.size) :
           call' = [call EXCEPT !.returned = TRUE, !.result = logType]
    /\ UNCHANGED program

NextDetect == DetectLogTypeCall

SpecDetect == InitDetect /\ [][NextDetect]_vars

\* C29: detectLogType is a function of the path and the size of the file alone:
\* two calls with the same path and size return the same log type, also for a
\* file whose base name or directory holds patterns of more than one type (the
\* type returned is the only one the call can return)
C29_LogTypeIsAFunctionOfPathAndSize ==
    (call.fn = "detectLogType" /\ call.returned) =>
        DetectLogType(call.path, call.size) = {call.result}

(***************************************************************************)
(* The setup wizard: Wizard.Run and its steps.  call holds the lines the   *)
(* standard input still has (input), the WizardConfig being filled in      *)
(* (cfg), the path awaiting the "continue anyway" answer (pending) and     *)
(* what Run returns; pc is the step the wizard is in.  A read past the     *)
(* end of the input yields the empty string (the error of ReadString is    *)
(* dropped).  The disk in fs is that of the analyze command, with the log  *)
(* files that exist.  Each action is one round of a step's prompt loop;    *)
(* the round of selectLogFile is two actions, one for each of its reads.   *)
(***************************************************************************)
MaxInput == 2        \* most lines of an enumerated standard input

StrY == <<"y">>
StrYes == <<"y","e","s">>
StrN == <<"n">>
StrNo == <<"n","o">>
StrDotRules == <<".","/","r","u","l","e","s">>
StrVarLogMessages == <<"/","v","a","r","/","l","o","g","/","m","e","s","s","a","g","e","s">>
StrVarLogJournal == <<"/","v","a","r","/","l","o","g","/","j","o","u","r","n","a","l">>
StrVarLogAudit == <<"/","v","a","r","/","l","o","g","/","a","u","d","i","t","/","a","u","d","i","t",".","l","o","g">>
StrTmpLog == <<"/","t","m","p","/","a",".","l","o","g">>

\* w.reader.ReadString('\n'): the next line with its newline, "" at the end of input
ReadString(input) ==
    IF input = <<>> THEN [line |-> <<>>, rest |-> <<>>]
    ELSE [line |-> Head(input) \o <<"\n">>, rest |-> Tail(input)]

\* the characters of a path of the saved configuration
PathChars(path) ==
    CASE path = "/var/log/messages" -> StrVarLogMessages
      [] path = "/var/log/auth.log" -> <<"/","v","a","r","/","l","o","g","/","a","u","t","h",".","l","o","g">>
      [] path = "./rules" -> StrDotRules
      [] path = "./missing" -> <<".","/","m","i","s","s","i","n","g">>
      [] OTHER -> <<>>

WizardConfig(logFile, logType, rulesDir, outputFormat) ==
    [LogFile |-> logFile, LogType |-> logType, RulesDir |-> rulesDir,
     OutputFormat |-> outputFormat, DownloadRules |-> FALSE, RuleSources |-> <<>>,
     SaveConfig |-> FALSE]

\* &WizardConfig{}
EmptyWizardConfig == WizardConfig(<<>>, "", <<>>, "")

\* defaultPaths[config.LogType]
DefaultPath(logType) ==
    CASE logType = "syslog" -> StrVarLogMessages
      [] logType = "journald" -> StrVarLogJournal
      [] logType = "auditd" -> StrVarLogAudit
      [] OTHER -> <<>>

\* Run returns (config, err); a non-nil error comes with a nil config
WizardReturn(config, err) ==
    [call EXCEPT !.cfg = config, !.err = err, !.nonNil = (err = "nil"), !.returned = TRUE,
                 !.pending = <<>>]

\* Run up to the first step: the existing configuration is offered and, on
\* "", "y" or "yes", returned
WizardRun ==
    /\ pc = "call"
    /\ call.fn = "wizard"
    /\ LET existing == LoadConfig(fs)
           read == ReadString(call.input)
           answer == TrimSpace(ToLower(read.line))
       IN IF existing.err = "nil" /\ existing.cfg.LogFile # ""
          THEN IF answer = <<>> \/ answer = StrY \/ answer = StrYes
               THEN /\ call' = [WizardReturn(WizardConfig(PathChars(existing.cfg.LogFile),
                                                          existing.cfg.LogType,
                                                          PathChars(existing.cfg.RulesDir),
                                                          existing.cfg.OutputFormat), "nil")
                                   EXCEPT !.input = read.rest]
                    /\ pc' = "done"
               ELSE /\ call' = [call EXCEPT !.input = read.rest]
                    /\ pc' = "selectLogType"
          ELSE /\ call' = call
               /\ pc' = "selectLogType"
    /\ fs' = [fs EXCEPT !.configDir = GetConfigPath(fs).configDir]
    /\ UNCHANGED outside

\* selectLogType: one round of its loop
SelectLogType ==
    /\ pc = "selectLogType"
    /\ LET read == ReadString(call.input)
           trimmed == TrimSpace(read.line)
           input == IF trimmed = <<>> THEN <<"1">> ELSE trimmed
       IN IF input \in {<<"1">>, <<"2">>, <<"3">>}
          THEN /\ call' = [call EXCEPT !.input = read.rest,
                                       !.cfg.LogType = CASE input = <<"1">> -> "syslog"
                                                         [] input = <<"2">> -> "journald"
                                                         [] input = <<"3">> -> "auditd"]
               /\ pc' = "selectLogFile"
          ELSE \* invalid choice: continue
               /\ call' = [call EXCEPT !.input = read.rest]
               /\ pc' = pc
    /\ UNCHANGED <<fs, outside>>

\* selectLogFile: a round of its loop up to the check that the file exists
SelectLogFile ==
    /\ pc = "selectLogFile"
    /\ LET read == ReadString(call.input)
           trimmed == TrimSpace(read.line)
           input == IF trimmed = <<>> THEN DefaultPath(call.cfg.LogType) ELSE trimmed
       IN IF input \notin fs.files
          THEN \* file does not exist: "Do you want to continue anyway?"
               /\ call' = [call EXCEPT !.input = read.rest, !.pending = input]
               /\ pc' = "confirmLogFile"
          ELSE /\ call' = [call EXCEPT !.input = read.rest, !.cfg.LogFile = input]
               /\ pc' = "selectRulesDirectory"
    /\ UNCHANGED <<fs, outside>>

\* selectLogFile: the rest of the round, for a file that does not exist
ConfirmLogFile ==
    /\ pc = "confirmLogFile"
    /\ LET read == ReadString(call.input)
           confirm == TrimSpace(ToLower(read.line))
       IN IF confirm # StrY /\ confirm # StrYes
          THEN \* continue
               /\ call' = [call EXCEPT !.input = read.rest, !.pending = <<>>]
               /\ pc' = "selectLogFile"
          ELSE /\ call' = [call EXCEPT !.input = read.rest, !.pending = <<>>,
                                       !.cfg.LogFile = call.pending]
               /\ pc' = "selectRulesDirectory"
    /\ UNCHANGED <<fs, outside>>

\* selectRulesDirectory: one round of its loop
SelectRulesDirectory ==
    /\ pc = "selectRulesDirectory"
    /\ LET read == ReadString(call.input)
           trimmed == TrimSpace(read.line)
           input == IF trimmed = <<>> THEN <<"1">> ELSE trimmed
           second == ReadString(read.rest)
           customPath == TrimSpace(second.line)
       IN IF input = <<"1">>
          THEN /\ call' = [call EXCEPT !.input = read.rest, !.cfg.RulesDir = StrDotRules]
               /\ pc' = "selectOutputFormat"
          ELSE IF input = <<"2">>
          THEN IF customPath = <<>>
               THEN \* path cannot be empty: continue
                    /\ call' = [call EXCEPT !.input = second.rest]
                    /\ pc' = pc
               ELSE /\ call' = [call EXCEPT !.input = second.rest,
                                            !.cfg.RulesDir = customPath]
                    /\ pc' = "selectOutputFormat"
          ELSE /\ call' = [call EXCEPT !.input = read.rest]
               /\ pc' = pc
    /\ UNCHANGED <<fs, outside>>

\* selectOutputFormat: one round of its loop
SelectOutputFormat ==
    /\ pc = "selectOutputFormat"
    /\ LET read == ReadString(call.input)
           trimmed == TrimSpace(read.line)
           input == IF trimmed = <<>> THEN <<"1">> ELSE trimmed
       IN IF input \in {<<"1">>, <<"2">>, <<"3">>}
          THEN /\ call' = [call EXCEPT !.input = read.rest,
                                       !.cfg.OutputFormat = CASE input = <<"1">> -> "table"
                                                              [] input = <<"2">> -> "csv"
                                                              [] input = <<"3">> -> "json"]
               /\ pc' = "setupRuleSources"
          ELSE /\ call' = [call EXCEPT !.input = read.rest]
               /\ pc' = pc
    /\ UNCHANGED <<fs, outside>>

\* setupRuleSources: one round of its first loop
SetupRuleSources ==
    /\ pc = "setupRuleSources"
    /\ LET read == ReadString(call.input)
           input == TrimSpace(ToLower(read.line))
       IN IF input = <<>> \/ input = StrN \/ input = StrNo
          THEN /\ call' = [call EXCEPT !.input = read.rest, !.cfg.DownloadRules = FALSE]
               /\ pc' = "askSaveConfig"
          ELSE IF input = StrY \/ input = StrYes
          THEN /\ call' = [call EXCEPT !.input = read.rest, !.cfg.DownloadRules = TRUE]
               /\ pc' = "selectRuleSources"
          ELSE /\ call' = [call EXCEPT !.input = read.rest]
               /\ pc' = pc
    /\ UNCHANGED <<fs, outside>>

\* setupRuleSources: one round of its second loop
SelectRuleSources ==
    /\ pc = "selectRuleSources"
    /\ LET read == ReadString(call.input)
           trimmed == TrimSpace(read.line)
           input == IF trimmed = <<>> THEN <<"3">> ELSE trimmed
       IN IF input \in {<<"1">>, <<"2">>, <<"3">>}
          THEN /\ call' = [call EXCEPT !.input = read.rest,
                                       !.cfg.RuleSources =
                                           CASE input = <<"1">> -> <<"ChopChopGo">>
                                             [] input = <<"2">> -> <<"SigmaHQ">>
                                             [] input = <<"3">> -> <<"ChopChopGo", "SigmaHQ">>]
               /\ pc' = "askSaveConfig"
          ELSE /\ call' = [call EXCEPT !.input = read.rest]
               /\ pc' = pc
    /\ UNCHANGED <<fs, outside>>

\* askSaveConfig: one round of its loop
AskSaveConfig ==
    /\ pc = "askSaveConfig"
    /\ LET read == ReadString(call.input)
           input == TrimSpace(ToLower(read.line))
       IN IF input = <<>> \/ input = StrY \/ input = StrYes
          THEN /\ call' = [call EXCEPT !.input = read.rest, !.cfg.SaveConfig = TRUE]
               /\ pc' = "showSummary"
          ELSE IF input = StrN \/ input = StrNo
          THEN /\ call' = [call EXCEPT !.input = read.rest, !.cfg.SaveConfig = FALSE]
               /\ pc' = "showSummary"
          ELSE /\ call' = [call EXCEPT !.input = read.rest]
               /\ pc' = pc
    /\ UNCHANGED <<fs, outside>>

\* showSummary, and the return of Run
ShowSummary ==
    /\ pc = "showSummary"
    /\ LET read == ReadString(call.input)
           input == TrimSpace(ToLower(read.line))
       IN call' = [(IF input = StrN \/ input = StrNo
                    THEN WizardReturn(EmptyWizardConfig, "user cancelled configuration")
                    ELSE WizardReturn(call.cfg, "nil"))
                      EXCEPT !.input = read.rest]
    /\ pc' = "done"
    /\ UNCHANGED <<fs, outside>>

NextWizard ==
    \/ WizardRun
    \/ SelectLogType
    \/ SelectLogFile
    \/ ConfirmLogFile
    \/ SelectRulesDirectory
    \/ SelectOutputFormat
    \/ SetupRuleSources
    \/ SelectRuleSources
    \/ AskSaveConfig
    \/ ShowSummary

\* the lines typed: an empty one, answers in both cases, choices, a choice
\* that is none, and a path
TypedLines == {<<>>, <<"N">>, StrY, <<"2">>, <<"x">>, StrTmpLog}

\* whole sessions: a download of one source, a custom rules directory, a cancel
TypedSessions ==
    {<<StrN, <<"3">>, <<>>, StrY, <<"1">>, <<"2">>, StrYes, <<"1">>, StrNo, <<>> >>,
     <<StrNo, <<>>, StrTmpLog, <<"2">>, StrDotRules, <<"3">>, <<>>, <<>>, StrN>>,
     <<StrN, <<"3">>, StrTmpLog, StrN, StrTmpLog, StrY, <<"2">>, <<>>, <<>>, <<"4">>, <<>> >>}

InitWizard ==
    /\ fs \in [home : {"ok"}, configDir : {TRUE},
               config : {[state |-> "absent", cfg |-> ZeroConfig],
                         [state |-> "malformed", cfg |-> ZeroConfig],
                         [state |-> "saved",
                          cfg |-> Config("/var/log/auth.log", "syslog", "./rules", "json")]},
               dirs : {"./rules" :> "ok"},
               files : SUBSET {StrVarLogMessages, StrTmpLog}]
    /\ call \in [fn : {"wizard"},
                 input : StringsUpTo(TypedLines, MaxInput) \cup TypedSessions,
                 cfg : {EmptyWizardConfig}, pending : {<<>>}, err : {"nil"},
                 nonNil : {FALSE}, returned : {FALSE}]
    /\ pc = "call"
    /\ entries = <<>>
    /\ engine = NotReturned
    /\ rules = <<>>
    /\ dirIdx = 0
    /\ warned = <<>>
    /\ contributed = <<>>
    /\ entryIdx = 1
    /\ ruleIdx = 0
    /\ matchedRules = <<>>
    /\ results = <<>>

SpecWizard == InitWizard /\ [][NextWizard]_vars

\* the wizard is one sequential program that runs as long as it has a step to take
FairWizard == SpecWizard /\ WF_vars(NextWizard)

\* C30: Wizard.Run eventually returns (a configuration or an error) on every
\* finite input, reads past its end yielding the empty string: the prompt loop
\* of each step ends, that of selectLogFile for a file that does not exist too
C30_WizardRunReturns == <>(call.fn = "wizard" /\ call.returned)

====
